---- MODULE Spec2Model ----
(***************************************************************************)
(* ARN protocol: the message codec (pkg/protocol/types.go), the protocol   *)
(* handler with its two registries (pkg/protocol/handler.go) and the       *)
(* TCP/UDP network server (pkg/network/server.go).                         *)
(*                                                                         *)
(* Numbers wider than TLC's integers are kept at their real width as       *)
(* tuples of 16-bit limbs, most significant limb first: a uint32 is        *)
(* <<hi, lo>>, a Go int (64-bit build) that is a length is <<top, hi, lo>> *)
(* with top counting multiples of 2^32, and a 64-bit word is four limbs.   *)
(***************************************************************************)
EXTENDS Integers, Sequences, FiniteSets, TLC

VARIABLES
    msg,        \* codec: the Message handed to Serialize
    wire,       \* codec: the byte buffer handed to Deserialize
    out,        \* codec: result of the last codec call
    big,        \* codec: Deserialize applied to a buffer described by its
                \*        length and declared payload length only
    capabilities,   \* Handler.capabilities: id -> Capability
    mcpBridges,     \* Handler.mcpBridges: id -> MCPBridge
    onMessage,      \* whether Handler.onMessage was injected
    onMCPBridge,    \* whether Handler.onMCPBridge was injected
    call,           \* the last call on the Handler and what it returned
    registered,     \* history: id -> capability of the last successful registration
    advertised,     \* history: id -> bridge of the last advertisement with that id
    mu,             \* Handler.mu: the task holding the write lock, the tasks
                    \*             holding the read lock
    task,           \* concurrent callers of one Handler: where each is in
                    \*             its call, its locals and what it returned
    tcpListener,    \* Server.tcpListener: "nil", "open" or "closed"
    udpConn,        \* Server.udpConn: "nil", "open" or "closed"
    ctxDone,        \* whether Server.ctx is cancelled
    wg,             \* Server.wg: the counter of the WaitGroup
    start,          \* what Start returned: "none" before the call, "ok" or the error
    stop,           \* where the Stop call is, and what it returned
    tcpLoop,        \* where handleTCP is
    udpLoop,        \* where handleUDP is, and the datagram it is copying
    buffer,         \* the buffer of handleUDP
    conns,          \* the TCP connections, in the order the clients made them
    pkts            \* the datagrams, in the order they reached the socket

codecVars == <<msg, wire, out, big>>
handlerVars ==
    <<capabilities, mcpBridges, onMessage, onMCPBridge, call, registered, advertised>>

concVars == <<mu, task>>

serverVars ==
    <<tcpListener, udpConn, ctxDone, wg, start, stop, tcpLoop, udpLoop, buffer,
      conns, pkts>>

\* what the actions of one component leave alone
codecRest == <<handlerVars, concVars, serverVars>>
handlerRest == <<codecVars, concVars, serverVars>>
concRest == <<codecVars, serverVars>>
serverRest == <<codecVars, handlerVars, concVars>>

NULL == "nil"

----------------------------------------------------------------------------
(* Bounds of the model *)

MaxPayload == 2     \* longest payload of a message handed to Serialize
MaxRawLen == 16     \* longest raw buffer handed to Deserialize
MaxSlack == 17      \* lengths and declared sizes up to this far from 0 / 2^32
MaxDataTypes == 2   \* longest data type list of a bridge
MaxTasks == 2       \* concurrent registrations on one Handler
MaxClients == 2     \* clients of a server: each makes one TCP connection
                    \* or sends one datagram

----------------------------------------------------------------------------
(* Fixed-width arithmetic *)

Limb == 256 * 256

U32(n) == <<n \div Limb, n % Limb>>

\* uint32 addition of a small constant, wrapping at 2^32
Add32(x, k) ==
    LET lo == x[2] + k
        hi == x[1] + (lo \div Limb)
    IN  <<hi % Limb, lo % Limb>>

\* len(data) of a sequence held in the model
LenOf(data) == <<0, Len(data) \div Limb, Len(data) % Limb>>

\* uint32(len(data)): the conversion keeps the low 32 bits
Trunc32(L) == <<L[2], L[3]>>

\* len(data) < n for a small n
LenLess(L, n) == L[1] = 0 /\ L[2] = 0 /\ L[3] < n

\* binary.BigEndian.PutUint32 / Uint32
PutUint32(x) == <<x[1] \div 256, x[1] % 256, x[2] \div 256, x[2] % 256>>
Uint32(b) == <<b[1] * 256 + b[2], b[3] * 256 + b[4]>>

\* binary.BigEndian.PutUint64 / Uint64 on a four-limb word
PutUint64(w) ==
    <<w[1] \div 256, w[1] % 256, w[2] \div 256, w[2] % 256,
      w[3] \div 256, w[3] % 256, w[4] \div 256, w[4] % 256>>
Uint64(b) ==
    <<b[1] * 256 + b[2], b[3] * 256 + b[4], b[5] * 256 + b[6], b[7] * 256 + b[8]>>

\* two's complement negation of a 64-bit word
Neg64(w) ==
    LET c4 == (Limb - 1 - w[4]) + 1
        c3 == (Limb - 1 - w[3]) + (c4 \div Limb)
        c2 == (Limb - 1 - w[2]) + (c3 \div Limb)
        c1 == (Limb - 1 - w[1]) + (c2 \div Limb)
    IN  <<c1 % Limb, c2 % Limb, c3 % Limb, c4 % Limb>>

\* An int64 is [neg, mag]: sign and magnitude (mag a 64-bit word).
I64(neg, mag) == [neg |-> neg, mag |-> mag]

\* uint64(x) for x an int64: the same 64 bits
ToUint64(x) == IF x.neg THEN Neg64(x.mag) ELSE x.mag

\* int64(u) for u a uint64: the same 64 bits
ToInt64(u) == IF u[1] >= 32768 THEN I64(TRUE, Neg64(u)) ELSE I64(FALSE, u)

\* a length (three limbs) plus a small constant, and the order on lengths
LenPlus(L, k) ==
    LET lo == L[3] + k
        hi == L[2] + (lo \div Limb)
    IN  <<L[1] + (hi \div Limb), hi % Limb, lo % Limb>>

LenLeq(x, y) ==
    \/ x[1] < y[1]
    \/ x[1] = y[1] /\ x[2] < y[2]
    \/ x[1] = y[1] /\ x[2] = y[2] /\ x[3] <= y[3]

\* int(x) for x a uint32, as a length
Widen(x) == <<0, x[1], x[2]>>

----------------------------------------------------------------------------
(* Message codec: pkg/protocol/types.go *)

V1 == 1

Hello == 1
Register == 2
Query == 3
Response == 4
Handshake == 5
Error == 6
AICapabilityAdvertise == 7
AICapabilityRequest == 8
AIStreamStart == 9
AIStreamData == 10
AIStreamEnd == 11
MCPBridgeAdvertise == 12
MCPBridgeRequest == 13
MCPBridgeResponse == 14

Message(v, t, size, payload, ts) ==
    [Version |-> v, Type |-> t, PayloadSize |-> size, Payload |-> payload,
     Timestamp |-> ts]

\* Serialize that writes the PayloadSize field where the length goes: the
\* change C12 is tried against.
Serialize_FieldSize(m) ==
    [err |-> NULL,
     data |-> <<m.Version, m.Type>>
              \o PutUint32(m.PayloadSize)
              \o m.Payload
              \o PutUint64(ToUint64(m.Timestamp))]

\* Serialize: version, type, len(payload) as uint32, payload, UnixNano as uint64.
\* A payload held in the model is never longer than 1<<32-1.
Serialize(m) ==
    [err |-> NULL,
     data |-> <<m.Version, m.Type>>
              \o PutUint32(U32(Len(m.Payload)))
              \o m.Payload
              \o PutUint64(ToUint64(m.Timestamp))]

\* The two checks Deserialize makes on the length L of its input and on the
\* declared payload size read from bytes 2..5 (when L >= 14): the error it
\* returns, or NULL.  expectedSize and uint32(len(data)) are uint32 values.
SizeError(L, declared) ==
    IF LenLess(L, 14) THEN "message too short"
    ELSE LET expectedSize == Add32(Add32(declared, 6), 8)
         IN  IF Trunc32(L) # expectedSize THEN "invalid message size" ELSE NULL

\* Deserialize with the payload taken one byte early (a header counted as 5
\* bytes): the change C1 is tried against.
Deserialize_PayloadOffByOne(data) ==
    IF Len(data) < 14 THEN [err |-> "message too short", msg |-> NULL]
    ELSE LET PayloadSize == Uint32(SubSeq(data, 3, 6))
             n == Len(data) - 8
         IN  IF LenOf(data) # LenPlus(Widen(PayloadSize), 14)
             THEN [err |-> "invalid message size", msg |-> NULL]
             ELSE [err |-> NULL,
                   msg |-> Message(data[1], data[2], PayloadSize,
                                   SubSeq(data, 6, n - 1),
                                   ToInt64(Uint64(SubSeq(data, n + 1, n + 8))))]

\* Deserialize of a buffer held in the model.
Deserialize(data) ==
    IF LenLess(LenOf(data), 14)
    THEN [err |-> SizeError(LenOf(data), U32(0)), msg |-> NULL]
    ELSE LET PayloadSize == Uint32(SubSeq(data, 3, 6))
             e == SizeError(LenOf(data), PayloadSize)
             end == Add32(PayloadSize, 6)
             n == end[1] * Limb + end[2]
         IN  IF e # NULL THEN [err |-> e, msg |-> NULL]
             ELSE [err |-> NULL,
                   msg |-> Message(data[1], data[2], PayloadSize,
                                   SubSeq(data, 7, n),
                                   ToInt64(Uint64(SubSeq(data, n + 1, n + 8))))]

\* Deserialize of a buffer too long to hold in the model, given by its length
\* L and its declared payload size: the error, a panic of the slice
\* expressions data[6:6+PayloadSize] and data[6+PayloadSize:] (the offset is
\* computed in uint32), or a returned message.
DeserializeLarge(L, declared) ==
    LET e == SizeError(L, declared)
        end == Widen(Add32(declared, 6))
    IN  IF e # NULL THEN [err |-> e, returned |-> FALSE]
        ELSE IF ~LenLeq(<<0, 0, 6>>, end) \/ ~LenLeq(LenPlus(end, 8), L)
             THEN [err |-> "panic", returned |-> FALSE]
             ELSE [err |-> NULL, returned |-> TRUE]


----------------------------------------------------------------------------
(* JSON payloads (encoding/json as the handler uses it).  A document is a  *)
(* byte sequence of one-byte tokens: structure tokens, key tokens (an      *)
(* index into Keys) and string tokens (an index into Strings); a number is *)
(* the num token followed by its two bytes.  Unmarshal into a struct takes *)
(* the fields the struct declares (the last occurrence of a key), leaves   *)
(* the others at their zero value, ignores unknown keys and fails on       *)
(* malformed text or a value of the wrong type.  Of Capability the fields  *)
(* id, name, type and mcp_enabled are kept, of MCPBridge id, endpoint and  *)
(* data_types: the handler reads no other field.                           *)

Tok == [obj |-> 123, end |-> 125, list |-> 91, endlist |-> 93,
        true |-> 116, false |-> 102, num |-> 35]

Keys == <<"id", "name", "type", "mcp_enabled", "capability_type", "endpoint",
          "data_types", "bridge_id", "data_type", "code", "message">>

Strings == <<"", "a", "b", "c", "d", "DISCOVER", "DELEGATE", "n1", "e1", "x", "y",
             "invalid capability format", "capability ID required",
             "invalid query format", "invalid MCP bridge format",
             "bridge ID required", "mcp bridge notification failed",
             "invalid bridge request format", "bridge not found",
             "unsupported data type">>

KeyIndex == [k \in {Keys[i] : i \in 1..Len(Keys)} |->
                CHOOSE i \in 1..Len(Keys) : Keys[i] = k]
StringIndex == [s \in {Strings[i] : i \in 1..Len(Strings)} |->
                   CHOOSE i \in 1..Len(Strings) : Strings[i] = s]

\* the token of a key and of a string
K(k) == KeyIndex[k]
S(s) == 128 + StringIndex[s]

KeyToks == 1..Len(Keys)
StrToks == {128 + i : i \in 1..Len(Strings)}
ScalarToks == StrToks \cup {Tok.true, Tok.false}

Min(set) == CHOOSE x \in set : \A y \in set : x <= y

\* The key/value pairs of an object, from position i on: a sequence of
\* <<key token, value tokens>>, or failure on malformed text.
RECURSIVE ParsePairs(_, _, _)
ParsePairs(b, i, acc) ==
    IF i > Len(b) THEN [ok |-> FALSE]
    ELSE IF b[i] = Tok.end
         THEN IF i = Len(b) THEN [ok |-> TRUE, pairs |-> acc] ELSE [ok |-> FALSE]
    ELSE IF b[i] \notin KeyToks \/ i + 1 > Len(b) THEN [ok |-> FALSE]
    ELSE IF b[i + 1] = Tok.list
         THEN LET js == {j \in (i + 2)..Len(b) : b[j] = Tok.endlist}
              IN  IF js = {} THEN [ok |-> FALSE]
                  ELSE ParsePairs(b, Min(js) + 1,
                                  Append(acc, <<b[i], SubSeq(b, i + 1, Min(js))>>))
    ELSE IF b[i + 1] \in ScalarToks
         THEN ParsePairs(b, i + 2, Append(acc, <<b[i], <<b[i + 1]>>>>))
    ELSE [ok |-> FALSE]

ParseObject(b) ==
    IF Len(b) < 2 \/ b[1] # Tok.obj THEN [ok |-> FALSE]
    ELSE ParsePairs(b, 2, <<>>)

\* the value tokens of the last pair with key k, or <<>> when absent
Field(pairs, k) ==
    LET is == {i \in 1..Len(pairs) : pairs[i][1] = K(k)}
    IN  IF is = {} THEN <<>>
        ELSE pairs[CHOOSE i \in is : \A j \in is : j <= i][2]

IsStr(v) == v = <<>> \/ (Len(v) = 1 /\ v[1] \in StrToks)
IsBool(v) == v = <<>> \/ v = <<Tok.true>> \/ v = <<Tok.false>>
IsStrList(v) ==
    \/ v = <<>>
    \/ /\ Len(v) >= 2
       /\ v[1] = Tok.list
       /\ \A i \in 2..(Len(v) - 1) : v[i] \in StrToks

StrOf(v) == IF v = <<>> THEN "" ELSE Strings[v[1] - 128]
BoolOf(v) == v = <<Tok.true>>
StrListOf(v) ==
    IF v = <<>> THEN <<>> ELSE [i \in 1..(Len(v) - 2) |-> Strings[v[i + 1] - 128]]

\* json.Unmarshal(payload, &s) for s a struct with string fields strs, bool
\* fields bools and []string fields lists: fields as a function from key to
\* value tokens
Unmarshal(payload, strs, bools, lists) ==
    LET p == ParseObject(payload)
    IN  IF ~p.ok THEN [err |-> "syntax"]
        ELSE IF \/ \E k \in strs : ~IsStr(Field(p.pairs, k))
                \/ \E k \in bools : ~IsBool(Field(p.pairs, k))
                \/ \E k \in lists : ~IsStrList(Field(p.pairs, k))
             THEN [err |-> "type"]
             ELSE [err |-> NULL,
                   val |-> [k \in strs \cup bools \cup lists |-> Field(p.pairs, k)]]

MarshalStrList(l) ==
    <<Tok.list>> \o [i \in 1..Len(l) |-> S(l[i])] \o <<Tok.endlist>>

\* json.Marshal of a Capability (mcp_enabled is omitempty)
MarshalCapability(c) ==
    <<Tok.obj, K("id"), S(c.ID), K("name"), S(c.Name), K("type"), S(c.Type)>>
    \o (IF c.MCPEnabled THEN <<K("mcp_enabled"), Tok.true>> ELSE <<>>)
    \o <<Tok.end>>

RECURSIVE Flatten(_)
Flatten(ss) == IF ss = <<>> THEN <<>> ELSE Head(ss) \o Flatten(Tail(ss))

\* json.Marshal of a []*Capability
MarshalCapabilities(cs) ==
    <<Tok.list>> \o Flatten([i \in 1..Len(cs) |-> MarshalCapability(cs[i])])
    \o <<Tok.endlist>>

\* json.Marshal of an MCPBridge
MarshalBridge(b) ==
    <<Tok.obj, K("id"), S(b.ID), K("endpoint"), S(b.Endpoint), K("data_types")>>
    \o MarshalStrList(b.DataTypes) \o <<Tok.end>>

\* json.Marshal of the {code, message} struct of createErrorMessage
MarshalError(code, message) ==
    <<Tok.obj, K("code"), Tok.num, code \div 256, code % 256,
      K("message"), S(message), Tok.end>>

----------------------------------------------------------------------------
(* Protocol handler: pkg/protocol/handler.go *)

\* ErrorCode constants: one const block, so iota keeps counting across the
\* four groups
ErrInvalidVersion == 100            \* 100 + iota, iota = 0
ErrInvalidMessageType == 101        \* 100 + iota, iota = 1
ErrInvalidPayload == 102            \* 100 + iota, iota = 2
ErrUnauthorized == 203              \* 200 + iota, iota = 3
ErrForbidden == 204                 \* 200 + iota, iota = 4
ErrInvalidCredentials == 205        \* 200 + iota, iota = 5
ErrCapabilityNotFound == 306        \* 300 + iota, iota = 6
ErrCapabilityUnavailable == 307     \* 300 + iota, iota = 7
ErrInvalidCapabilityFormat == 308   \* 300 + iota, iota = 8
ErrMCPEndpointUnavailable == 409    \* 400 + iota, iota = 9
ErrMCPProtocolMismatch == 410       \* 400 + iota, iota = 10
ErrMCPAuthenticationFailed == 411   \* 400 + iota, iota = 11

Capability(id, name, type, mcp) ==
    [ID |-> id, Name |-> name, Type |-> type, MCPEnabled |-> mcp]

MCPBridge(id, endpoint, dataTypes) ==
    [ID |-> id, Endpoint |-> endpoint, DataTypes |-> dataTypes]

\* m[k] = v on a Go map
Put(m, k, v) == [x \in DOMAIN m \cup {k} |-> IF x = k THEN v ELSE m[x]]

EmptyMap == [x \in {} |-> 0]

\* NewHandler
NewHandler == [capabilities |-> EmptyMap, mcpBridges |-> EmptyMap]

\* RegisterCapability that fills the empty fields of the new entry from
\* the entry it replaces (a merge): the change C4 is tried against.
RegisterCapability_Merge(caps, cap) ==
    IF cap.ID = ""
    THEN [err |-> "capability ID required", capabilities |-> caps]
    ELSE IF cap.ID \in DOMAIN caps
         THEN [err |-> NULL,
               capabilities |->
                 Put(caps, cap.ID,
                     [cap EXCEPT !.Name = IF cap.Name = "" THEN caps[cap.ID].Name
                                          ELSE cap.Name,
                                 !.MCPEnabled = cap.MCPEnabled
                                                \/ caps[cap.ID].MCPEnabled])]
         ELSE [err |-> NULL, capabilities |-> Put(caps, cap.ID, cap)]

\* RegisterCapability without the check of the id: the change C17 is tried
\* against.
RegisterCapability_NoCheck(caps, cap) ==
    [err |-> NULL, capabilities |-> Put(caps, cap.ID, cap)]

\* RegisterCapability, the lock aside: the error and the registry after
RegisterCapability(caps, cap) ==
    IF cap.ID = ""
    THEN [err |-> "capability ID required", capabilities |-> caps]
    ELSE [err |-> NULL, capabilities |-> Put(caps, cap.ID, cap)]

\* RegisterMCPBridge without the check of the id: the change C26 is tried
\* against.
RegisterMCPBridge_NoCheck(bridges, bridge, cb) ==
    [err |-> IF cb = "fail" THEN "mcp bridge notification failed" ELSE NULL,
     mcpBridges |-> Put(bridges, bridge.ID, bridge),
     notified |-> IF cb = "nil" THEN <<>> ELSE <<bridge>>]

\* RegisterMCPBridge, the lock aside.  cb is "nil" when no onMCPBridge was
\* injected, else "ok" or "fail", what this invocation of it reports.
\* notified: the bridges handed to the callback.
RegisterMCPBridge(bridges, bridge, cb) ==
    IF bridge.ID = ""
    THEN [err |-> "bridge ID required", mcpBridges |-> bridges, notified |-> <<>>]
    ELSE LET stored == Put(bridges, bridge.ID, bridge)
         IN  IF cb = "nil"
             THEN [err |-> NULL, mcpBridges |-> stored, notified |-> <<>>]
             ELSE [err |-> IF cb = "fail" THEN "mcp bridge notification failed"
                           ELSE NULL,
                   mcpBridges |-> stored, notified |-> <<bridge>>]

\* What HandleMessage returns and leaves behind: resp is <<>> (nil) or one
\* message, err the returned error or NULL.
Result(resp, err, caps, bridges, notified, passed) ==
    [resp |-> resp, err |-> err, capabilities |-> caps, mcpBridges |-> bridges,
     notified |-> notified, passed |-> passed]

createErrorMessage(code, message, now) ==
    Message(V1, Error, U32(0), MarshalError(code, message), now)

\* A Hello answered with the payload of the request: the change C16 is
\* tried against.
handleHello_EchoPayload(h, m, env) ==
    Result(<<Message(V1, Hello, U32(0), m.Payload, env.now)>>, NULL,
           h.capabilities, h.mcpBridges, <<>>, <<>>)

handleHello(h, m, env) ==
    Result(<<Message(V1, Hello, U32(0), <<>>, env.now)>>, NULL,
           h.capabilities, h.mcpBridges, <<>>, <<>>)

handleRegister(h, m, env) ==
    LET u == Unmarshal(m.Payload, {"id", "name", "type"}, {"mcp_enabled"}, {})
    IN  IF u.err # NULL
        THEN Result(<<createErrorMessage(ErrInvalidPayload,
                                         "invalid capability format", env.now)>>,
                    NULL, h.capabilities, h.mcpBridges, <<>>, <<>>)
        ELSE LET cap == Capability(StrOf(u.val["id"]), StrOf(u.val["name"]),
                                   StrOf(u.val["type"]),
                                   BoolOf(u.val["mcp_enabled"]))
                 r == RegisterCapability(h.capabilities, cap)
             IN  IF r.err # NULL
                 THEN Result(<<createErrorMessage(ErrInvalidCapabilityFormat,
                                                  r.err, env.now)>>,
                             NULL, r.capabilities, h.mcpBridges, <<>>, <<>>)
                 ELSE Result(<<Message(V1, Response, U32(0), <<>>, env.now)>>,
                             NULL, r.capabilities, h.mcpBridges, <<>>, <<>>)

\* The scan without the mcp_enabled condition: the change C3 is tried
\* against.
QueryMatches_TypeOnly(caps, order, capabilityType, mcpEnabled) ==
    LET hit(id) == caps[id].Type = capabilityType
        ids == SelectSeq(order, hit)
    IN  [i \in 1..Len(ids) |-> caps[ids[i]]]

\* The scan of handleQuery: order is the order in which the range over the
\* map yields its keys
QueryMatches(caps, order, capabilityType, mcpEnabled) ==
    LET hit(id) == /\ caps[id].Type = capabilityType
                   /\ (~mcpEnabled \/ caps[id].MCPEnabled)
        ids == SelectSeq(order, hit)
    IN  [i \in 1..Len(ids) |-> caps[ids[i]]]

handleQuery(h, m, env) ==
    LET u == Unmarshal(m.Payload, {"capability_type"}, {"mcp_enabled"}, {})
    IN  IF u.err # NULL
        THEN Result(<<createErrorMessage(ErrInvalidPayload,
                                         "invalid query format", env.now)>>,
                    NULL, h.capabilities, h.mcpBridges, <<>>, <<>>)
        ELSE LET matches == QueryMatches(h.capabilities, env.order,
                                         StrOf(u.val["capability_type"]),
                                         BoolOf(u.val["mcp_enabled"]))
             IN  Result(<<Message(V1, Response, U32(0),
                                  MarshalCapabilities(matches), env.now)>>,
                        NULL, h.capabilities, h.mcpBridges, <<>>, <<>>)

handleMCPBridgeAdvertise(h, m, env) ==
    LET u == Unmarshal(m.Payload, {"id", "endpoint"}, {}, {"data_types"})
    IN  IF u.err # NULL
        THEN Result(<<createErrorMessage(ErrInvalidPayload,
                                         "invalid MCP bridge format", env.now)>>,
                    NULL, h.capabilities, h.mcpBridges, <<>>, <<>>)
        ELSE LET bridge == MCPBridge(StrOf(u.val["id"]), StrOf(u.val["endpoint"]),
                                     StrListOf(u.val["data_types"]))
                 r == RegisterMCPBridge(h.mcpBridges, bridge, env.onMCPBridge)
             IN  IF r.err # NULL
                 THEN Result(<<createErrorMessage(ErrMCPEndpointUnavailable,
                                                  r.err, env.now)>>,
                             NULL, h.capabilities, r.mcpBridges, r.notified, <<>>)
                 ELSE Result(<<Message(V1, Response, U32(0), <<>>, env.now)>>,
                             NULL, h.capabilities, r.mcpBridges, r.notified, <<>>)

\* The scan that looks at the first data type only: the change C5 is tried
\* against.
Supported_FirstOnly(bridge, DataType) ==
    Len(bridge.DataTypes) > 0 /\ bridge.DataTypes[1] = DataType

\* The scan of handleMCPBridgeRequest over bridge.DataTypes
Supported(bridge, DataType) ==
    \E i \in 1..Len(bridge.DataTypes) : bridge.DataTypes[i] = DataType

handleMCPBridgeRequest(h, m, env) ==
    LET u == Unmarshal(m.Payload, {"bridge_id", "data_type"}, {}, {})
    IN  IF u.err # NULL
        THEN Result(<<createErrorMessage(ErrInvalidPayload,
                                         "invalid bridge request format",
                                         env.now)>>,
                    NULL, h.capabilities, h.mcpBridges, <<>>, <<>>)
        ELSE LET BridgeID == StrOf(u.val["bridge_id"])
                 DataType == StrOf(u.val["data_type"])
                 exists == BridgeID \in DOMAIN h.mcpBridges
             IN  IF ~exists
                 THEN Result(<<createErrorMessage(ErrMCPEndpointUnavailable,
                                                  "bridge not found", env.now)>>,
                             NULL, h.capabilities, h.mcpBridges, <<>>, <<>>)
                 ELSE LET bridge == h.mcpBridges[BridgeID]
                          supported == Supported(bridge, DataType)
                      IN  IF ~supported
                          THEN Result(<<createErrorMessage(
                                          ErrMCPProtocolMismatch,
                                          "unsupported data type", env.now)>>,
                                      NULL, h.capabilities, h.mcpBridges,
                                      <<>>, <<>>)
                          ELSE Result(<<Message(V1, MCPBridgeResponse, U32(0),
                                                MarshalBridge(bridge), env.now)>>,
                                      NULL, h.capabilities, h.mcpBridges,
                                      <<>>, <<>>)

\* HandleMessage answering a message of any other type with a Response:
\* the change C18 is tried against.
HandleMessage_AnswersOther(h, m, env) ==
    CASE m.Type = Hello -> handleHello(h, m, env)
      [] m.Type = Register -> handleRegister(h, m, env)
      [] m.Type = Query -> handleQuery(h, m, env)
      [] m.Type = MCPBridgeAdvertise -> handleMCPBridgeAdvertise(h, m, env)
      [] m.Type = MCPBridgeRequest -> handleMCPBridgeRequest(h, m, env)
      [] OTHER ->
           Result(<<Message(V1, Response, U32(0), <<>>, env.now)>>, NULL,
                  h.capabilities, h.mcpBridges, <<>>,
                  IF env.onMessage = "nil" THEN <<>> ELSE <<m>>)

\* HandleMessage.  h: the two registries; env: now (time.Now), order (map
\* iteration order), onMessage and onMCPBridge ("nil", or what the callback
\* reports on this call: "ok" or "fail").
HandleMessage(h, m, env) ==
    CASE m.Type = Hello -> handleHello(h, m, env)
      [] m.Type = Register -> handleRegister(h, m, env)
      [] m.Type = Query -> handleQuery(h, m, env)
      [] m.Type = MCPBridgeAdvertise -> handleMCPBridgeAdvertise(h, m, env)
      [] m.Type = MCPBridgeRequest -> handleMCPBridgeRequest(h, m, env)
      [] OTHER ->
           IF env.onMessage = "nil"
           THEN Result(<<>>, NULL, h.capabilities, h.mcpBridges, <<>>, <<>>)
           ELSE Result(<<>>,
                       IF env.onMessage = "fail" THEN "message handler error"
                       ELSE NULL,
                       h.capabilities, h.mcpBridges, <<>>, <<m>>)

----------------------------------------------------------------------------
(* Inputs of the codec *)

VersionVals == {0, V1, 255}
TypeVals == {0, Hello, MCPBridgeResponse, 255}
PayloadBytes == {0, 255}
SizeVals == {U32(0), U32(7)}

Payloads == UNION {[1..n -> PayloadBytes] : n \in 0..MaxPayload}

\* int64 Unix nanoseconds: 0, 1, -1, 255, -256, a present-day instant,
\* a pre-1970 instant, the largest and the smallest int64
TimestampVals ==
    {I64(FALSE, <<0, 0, 0, 0>>), I64(FALSE, <<0, 0, 0, 1>>),
     I64(TRUE, <<0, 0, 0, 1>>), I64(FALSE, <<0, 0, 0, 255>>),
     I64(TRUE, <<0, 0, 0, 256>>), I64(FALSE, <<6000, 12345, 6, 65535>>),
     I64(TRUE, <<1, 0, 65535, 0>>), I64(FALSE, <<32767, 65535, 65535, 65535>>),
     I64(TRUE, <<32768, 0, 0, 0>>)}

Messages ==
    {Message(v, t, sz, p, ts) :
        v \in VersionVals, t \in TypeVals, sz \in SizeVals, p \in Payloads,
        ts \in TimestampVals}

\* raw buffers: the first n bytes of a header with declared size d followed
\* by filler
DeclBytes == {0, 1, 2, 255}
RawBuf(n, d, fill) ==
    SubSeq(<<V1, Hello>> \o d \o [i \in 1..MaxRawLen |-> fill], 1, n)

\* lengths and declared sizes near 0, near 2^32 and beyond it
NearLimbs == (0..MaxSlack) \cup ((Limb - MaxSlack)..(Limb - 1))
LargeLens == {<<c, a, b>> : c \in 0..1, a \in {0, Limb - 1}, b \in NearLimbs}
LargeDecls == {<<a, b>> : a \in {0, Limb - 1}, b \in NearLimbs}

RawBufs ==
    {RawBuf(n, d, fill) :
        n \in 0..MaxRawLen, d \in [1..4 -> DeclBytes], fill \in PayloadBytes}

\* the zero Message
NoMessage == Message(0, 0, U32(0), <<>>, I64(FALSE, <<0, 0, 0, 0>>))

\* One codec input: a message to serialize and read back, a received buffer
\* to deserialize, or the length and declared size of a large buffer.
CodecInit ==
    \/ /\ msg \in Messages
       /\ wire = <<>>
       /\ out = [op |-> "message"]
       /\ big = [op |-> "none"]
    \/ /\ msg = NoMessage
       /\ wire \in RawBufs
       /\ out = [op |-> "buffer"]
       /\ big = [op |-> "none"]
    \/ /\ msg = NoMessage
       /\ wire = <<>>
       /\ out = [op |-> "none"]
       /\ big \in {[op |-> "buffer", len |-> L, declared |-> d] :
                      L \in LargeLens, d \in LargeDecls}

DoSerialize ==
    /\ out.op = "message"
    /\ LET r == Serialize(msg)
       IN  /\ out' = [op |-> "Serialize", err |-> r.err]
           /\ wire' = r.data
    /\ UNCHANGED <<msg, big, codecRest>>

DoDeserialize ==
    /\ \/ out.op = "Serialize" /\ out.err = NULL
       \/ out.op = "buffer"
    /\ LET r == Deserialize(wire)
       IN  out' = [op |-> "Deserialize", err |-> r.err, msg |-> r.msg,
                   from |-> out.op]
    /\ UNCHANGED <<msg, wire, big, codecRest>>

DoDeserializeLarge ==
    /\ big.op = "buffer"
    /\ LET r == DeserializeLarge(big.len, big.declared)
       IN  big' = [op |-> "Deserialize", len |-> big.len,
                   declared |-> big.declared, err |-> r.err,
                   returned |-> r.returned]
    /\ UNCHANGED <<msg, wire, out, codecRest>>

CodecNext ==
    \/ DoSerialize
    \/ DoDeserialize
    \/ DoDeserializeLarge



----------------------------------------------------------------------------
(* Calls on one Handler, one after the other *)

CapIds == {"", "a", "b"}
\* name, type and mcp_enabled of the capabilities registered
CapShapes ==
    {<<"n1", "DISCOVER", TRUE>>, <<"", "DISCOVER", FALSE>>, <<"n1", "DELEGATE", TRUE>>}
CapTypes == {"DISCOVER", "DELEGATE"}
QueryTypes == CapTypes \cup {"x"}
BridgeIds == {"", "a"}
RequestIds == {"", "a", "b"}
DataTypeNames == <<"x", "y">>

Caps == {Capability(id, sh[1], sh[2], sh[3]) : id \in CapIds, sh \in CapShapes}

\* data type lists: the prefixes of x, y, x, y, ...
DataTypeLists ==
    {[i \in 1..n |-> DataTypeNames[((i - 1) % 2) + 1]] : n \in 0..MaxDataTypes}

\* a bridge without data types has no endpoint either
Bridges ==
    {MCPBridge(id, IF d = <<>> THEN "" ELSE "e1", d) :
        id \in BridgeIds, d \in DataTypeLists}

\* time.Now() at the moment of a call
NowVals == {I64(FALSE, <<6000, 12345, 6, 65535>>)}

Perms(set) ==
    {f \in [1..Cardinality(set) -> set] : \A i, j \in DOMAIN f : f[i] = f[j] => i = j}

BoolTok(v) == IF v THEN Tok.true ELSE Tok.false

\* the payloads a client builds with json.Marshal
QueryDoc(t, mcp) ==
    <<Tok.obj, K("capability_type"), S(t), K("mcp_enabled"), BoolTok(mcp), Tok.end>>
RequestDoc(id, dt) ==
    <<Tok.obj, K("bridge_id"), S(id), K("data_type"), S(dt), Tok.end>>

\* payloads that are no JSON object, or carry a value of the wrong type for
\* every struct that has the key
BadDocs ==
    {<<>>, <<Tok.obj>>,
     <<Tok.obj, K("id"), Tok.true, K("capability_type"), Tok.true,
       K("bridge_id"), Tok.true, Tok.end>>}

\* well-formed payloads with keys left out, repeated or unknown to the struct
OddDocs ==
    {<<Tok.obj, Tok.end>>,
     <<Tok.obj, K("id"), S("b"), K("code"), S("x"), K("id"), S(""),
       K("data_types"), Tok.list, S("y"), Tok.endlist, Tok.end>>}

Request(type, payload) ==
    Message(V1, type, U32(Len(payload)), payload, I64(FALSE, <<6000, 0, 0, 1>>))

OtherTypes ==
    {0, Response, Handshake, Error, AICapabilityAdvertise, AICapabilityRequest,
     AIStreamStart, AIStreamData, AIStreamEnd, MCPBridgeResponse, 255}

HandlerInit ==
    /\ capabilities = NewHandler.capabilities
    /\ mcpBridges = NewHandler.mcpBridges
    /\ onMessage \in BOOLEAN
    /\ onMCPBridge = onMessage
    /\ call = [op |-> "NewHandler"]
    /\ registered = EmptyMap
    /\ advertised = EmptyMap

\* what an injected callback may report on one invocation
Reports(injected) == IF injected THEN {"ok", "fail"} ELSE {"nil"}

\* the environment of a call that consults no callback and does not range
\* over the capability map
Env(now) == [now |-> now, order |-> <<>>, onMessage |-> "nil", onMCPBridge |-> "nil"]

\* one HandleMessage call: the registries after it and the record of the call
Handled(op, arg, m, env) ==
    \E r \in {HandleMessage([capabilities |-> capabilities,
                             mcpBridges |-> mcpBridges], m, env)} :
        /\ capabilities' = r.capabilities
        /\ mcpBridges' = r.mcpBridges
        /\ call' = [op |-> op, arg |-> arg, msg |-> m, env |-> env, resp |-> r.resp,
                    err |-> r.err, notified |-> r.notified, passed |-> r.passed,
                    changed |-> (r.capabilities # capabilities
                                 \/ r.mcpBridges # mcpBridges),
                    ids0 |-> DOMAIN capabilities]
        /\ registered' =
             IF op = "Register" /\ r.resp # <<>> /\ r.resp[1].Type = Response
             THEN Put(registered, arg.ID, arg) ELSE registered
        /\ advertised' =
             IF op = "MCPBridgeAdvertise" /\ arg.ID # ""
             THEN Put(advertised, arg.ID, arg) ELSE advertised
        /\ UNCHANGED <<onMessage, onMCPBridge, handlerRest>>

SendHello ==
    \E p \in {<<>>, <<7>>, QueryDoc("x", TRUE)}, now \in NowVals :
        Handled("Hello", p, Request(Hello, p), Env(now))

SendRegister ==
    \E cap \in Caps, now \in NowVals :
        Handled("Register", cap, Request(Register, MarshalCapability(cap)),
                Env(now))

SendQuery ==
    \E t \in QueryTypes, mcp \in BOOLEAN, now \in NowVals,
       order \in Perms(DOMAIN capabilities) :
        Handled("Query", [capabilityType |-> t, mcpEnabled |-> mcp],
                Request(Query, QueryDoc(t, mcp)),
                [Env(now) EXCEPT !.order = order])

SendMCPBridgeAdvertise ==
    \E b \in Bridges, now \in NowVals, cb \in Reports(onMCPBridge) :
        Handled("MCPBridgeAdvertise", b,
                Request(MCPBridgeAdvertise, MarshalBridge(b)),
                [Env(now) EXCEPT !.onMCPBridge = cb])

SendMCPBridgeRequest ==
    \E id \in RequestIds, dt \in {"x", "y"}, now \in NowVals :
        Handled("MCPBridgeRequest", [bridgeId |-> id, dataType |-> dt],
                Request(MCPBridgeRequest, RequestDoc(id, dt)), Env(now))

\* a payload that does not decode
SendUndecodable ==
    \E t \in {Register, Query, MCPBridgeAdvertise, MCPBridgeRequest},
       p \in BadDocs, now \in NowVals :
        Handled("Undecodable", p, Request(t, p), Env(now))

\* a payload that decodes with keys left out, repeated or unknown
SendOdd ==
    \E t \in {Register, Query, MCPBridgeAdvertise, MCPBridgeRequest},
       p \in OddDocs, now \in NowVals :
        Handled("Odd", p, Request(t, p),
                [Env(now) EXCEPT !.onMCPBridge = IF onMCPBridge THEN "ok" ELSE "nil",
                                 !.order = CHOOSE o \in Perms(DOMAIN capabilities) : TRUE])

SendOther ==
    \E t \in OtherTypes, now \in NowVals, cb \in Reports(onMessage) :
        Handled("Other", t, Request(t, QueryDoc("x", TRUE)),
                [Env(now) EXCEPT !.onMessage = cb])

\* the exported RegisterCapability and RegisterMCPBridge, called directly
CallRegisterCapability ==
    \E cap \in Caps :
      \E r \in {RegisterCapability(capabilities, cap)} :
            /\ capabilities' = r.capabilities
            /\ call' = [op |-> "RegisterCapability", arg |-> cap, err |-> r.err,
                        changed |-> r.capabilities # capabilities,
                        ids0 |-> DOMAIN capabilities]
            /\ registered' = IF r.err = NULL THEN Put(registered, cap.ID, cap)
                             ELSE registered
            /\ UNCHANGED <<mcpBridges, onMessage, onMCPBridge, advertised, handlerRest>>

CallRegisterMCPBridge ==
    \E b \in Bridges, cb \in Reports(onMCPBridge) :
      \E r \in {RegisterMCPBridge(mcpBridges, b, cb)} :
            /\ mcpBridges' = r.mcpBridges
            /\ call' = [op |-> "RegisterMCPBridge", arg |-> b, err |-> r.err,
                        notified |-> r.notified,
                        changed |-> r.mcpBridges # mcpBridges]
            /\ advertised' = IF b.ID # "" THEN Put(advertised, b.ID, b)
                             ELSE advertised
            /\ UNCHANGED <<capabilities, onMessage, onMCPBridge, registered, handlerRest>>

HandlerNext ==
    \/ SendHello
    \/ SendRegister
    \/ SendQuery
    \/ SendMCPBridgeAdvertise
    \/ SendMCPBridgeRequest
    \/ SendUndecodable
    \/ SendOdd
    \/ SendOther
    \/ CallRegisterCapability
    \/ CallRegisterMCPBridge

----------------------------------------------------------------------------
(* Concurrent calls on one Handler.  Each caller is a task; a step of a    *)
(* task is one lock operation or one access to a registry.  The store into *)
(* the capability map is a read of the map followed by the write of the    *)
(* map with the entry put in: inside the write lock the two are one.       *)

NoTask == "none"

\* the tasks that register: each its own non-empty id
TaskNames == <<"a", "b", "c", "d">>
Registrars == {TaskNames[i] : i \in 1..MaxTasks}
Querier == "q"

\* the tasks that advertise a bridge: one with an id, one with an empty id
Advertisers == {"adv", "adv0"}
\* the task that advertises the id of "adv" again, with another record
Readvertiser == "adv2"
\* the task that requests a bridge, and the task that says Hello
Requester == "req"
Greeter == "hello"

Tasks == Registrars \cup {Querier} \cup Advertisers \cup {Requester, Greeter}

\* the capability task t registers
TaskCap(t) == Capability(t, "n1", "DISCOVER", FALSE)

\* the bridge task t advertises
TaskBridge(t) ==
    CASE t = "adv" -> MCPBridge("a", "e1", <<"x">>)
      [] t = "adv2" -> MCPBridge("a", "e1", <<"y">>)
      [] OTHER -> MCPBridge("", "", <<>>)

\* the request of the requesting task
TaskRequest == [bridgeId |-> "a", dataType |-> "x"]

\* the filter of the query task
TaskFilter == [capabilityType |-> "DISCOVER", mcpEnabled |-> FALSE]

\* a Lock that excludes nobody: the change C6 is tried against
CanLock_NoExclusion(m) == TRUE

\* sync.RWMutex: Lock proceeds when nobody holds the lock
CanLock(m) == m.writer = NoTask /\ m.readers = {}

\* an RLock that does not wait for a writer: the change C15 is tried against
CanRLock_IgnoresWriter(m) == TRUE

\* sync.RWMutex: RLock proceeds when no writer holds the lock
CanRLock(m) == m.writer = NoTask

\* RegisterMCPBridge that notifies before it stores: the change C13 is
\* tried against.
AdvertiseOrder_NotifyFirst == <<"Lock", "onMCPBridge", "store", "Unlock">>

\* RegisterMCPBridge with the lock given up before the callback is invoked:
\* the change C14 is tried against.
AdvertiseOrder_UnlockFirst == <<"Lock", "store", "Unlock", "onMCPBridge">>

\* RegisterMCPBridge returning with the lock held: the change C27 is tried
\* against.
AdvertiseOrder_NoUnlock == <<"Lock", "store", "onMCPBridge">>

\* RegisterMCPBridge, the order of its statements: h.mu.Lock(), the store
\* into the map, the callback, and the deferred h.mu.Unlock() at the return
AdvertiseOrder == <<"Lock", "store", "onMCPBridge", "Unlock">>

\* the statement after pc, or "return" after the last
Following(pc) ==
    LET i == CHOOSE j \in 1..Len(AdvertiseOrder) : AdvertiseOrder[j] = pc
    IN  IF i = Len(AdvertiseOrder) THEN "return" ELSE AdvertiseOrder[i + 1]

\* a callback invoked by RegisterMCPBridge has started and not yet returned
CallbackRunning == \E t \in Advertisers : task[t].pc = "onMCPBridge"

\* A task: where it is, the map a store has read, the registrations that
\* had returned when it was issued (after) and when it read the registry
\* (seen), its response, what its call returned, what the callback reported
\* and whether a callback was running when it was answered.
ConcInit ==
    /\ mu = [writer |-> NoTask, readers |-> {}]
    /\ task = [t \in Tasks |->
                 [pc |-> IF t \in {Querier, Requester, Greeter} THEN "idle"
                         ELSE "Lock",
                  snap |-> EmptyMap, found |-> <<>>, after |-> {}, seen |-> {},
                  resp |-> <<>>,
                  ret |-> "running", report |-> "none", blocked |-> FALSE]]

\* RegisterCapability, line 42: h.mu.Lock()
Lock(t) ==
    /\ t \in Registrars
    /\ task[t].pc = "Lock"
    /\ CanLock(mu)
    /\ mu' = [mu EXCEPT !.writer = t]
    /\ task' = [task EXCEPT ![t].pc = IF TaskCap(t).ID = "" THEN "Unlock" ELSE "load",
                            ![t].ret = IF TaskCap(t).ID = ""
                                       THEN "capability ID required" ELSE NULL]
    /\ UNCHANGED <<handlerVars, concRest>>

\* line 49, first half: the map as the store finds it
MapLoad(t) ==
    /\ t \in Registrars
    /\ task[t].pc = "load"
    /\ task' = [task EXCEPT ![t].pc = "store", ![t].snap = capabilities]
    /\ UNCHANGED <<mu, handlerVars, concRest>>

\* line 49, second half: the map with the entry put in
MapStore(t) ==
    /\ t \in Registrars
    /\ task[t].pc = "store"
    /\ capabilities' = Put(task[t].snap, TaskCap(t).ID, TaskCap(t))
    /\ task' = [task EXCEPT ![t].pc = "Unlock", ![t].snap = EmptyMap]
    /\ UNCHANGED <<mu, mcpBridges, onMessage, onMCPBridge, call, registered,
                   advertised, concRest>>

\* the deferred h.mu.Unlock() and the return
Unlock(t) ==
    /\ t \in Registrars
    /\ task[t].pc = "Unlock"
    /\ mu' = [mu EXCEPT !.writer = NoTask]
    /\ task' = [task EXCEPT ![t].pc = "done"]
    /\ UNCHANGED <<handlerVars, concRest>>

\* the callers of RegisterCapability there are
Registering == DOMAIN task \cap Registrars

\* a Query is issued: handleQuery decodes the filter (lines 126-133)
QueryBegin ==
    /\ task[Querier].pc = "idle"
    /\ task' = [task EXCEPT ![Querier].pc = "RLock",
                            ![Querier].after =
                                {t \in Registering : task[t].pc = "done"}]
    /\ UNCHANGED <<mu, handlerVars, concRest>>

\* line 135: h.mu.RLock()
RLock ==
    /\ task[Querier].pc = "RLock"
    /\ CanRLock(mu)
    /\ mu' = [mu EXCEPT !.readers = @ \cup {Querier}]
    /\ task' = [task EXCEPT ![Querier].pc = "scan"]
    /\ UNCHANGED <<handlerVars, concRest>>

\* lines 139-157: the scan of the map and the response
QueryScan ==
    /\ task[Querier].pc = "scan"
    /\ \E order \in Perms(DOMAIN capabilities), now \in NowVals :
          task' = [task EXCEPT
                     ![Querier].pc = "RUnlock",
                     ![Querier].ret = NULL,
                     ![Querier].seen = {t \in Registering : task[t].pc = "done"},
                     ![Querier].resp =
                        <<HandleMessage(
                              [capabilities |-> capabilities,
                               mcpBridges |-> mcpBridges],
                              Request(Query, QueryDoc(TaskFilter.capabilityType,
                                                      TaskFilter.mcpEnabled)),
                              [Env(now) EXCEPT !.order = order]).resp[1]>>]
    /\ UNCHANGED <<mu, handlerVars, concRest>>

\* the deferred h.mu.RUnlock() and the return
RUnlock ==
    /\ task[Querier].pc = "RUnlock"
    /\ mu' = [mu EXCEPT !.readers = @ \ {Querier}]
    /\ task' = [task EXCEPT ![Querier].pc = "done"]
    /\ UNCHANGED <<handlerVars, concRest>>

\* handleMCPBridgeAdvertise, lines 166-175: the response once
\* RegisterMCPBridge has returned ret; the task moves to next
Advertised(rec, next, ret, now) ==
    IF next # "return" THEN [rec EXCEPT !.pc = next, !.ret = ret]
    ELSE [rec EXCEPT
            !.pc = "done",
            !.ret = ret,
            !.resp = IF ret # NULL
                     THEN <<createErrorMessage(ErrMCPEndpointUnavailable, ret, now)>>
                     ELSE <<Message(V1, Response, U32(0), <<>>, now)>>]

\* RegisterMCPBridge, lines 55-60: h.mu.Lock() and the check of the id
BridgeLock(t) ==
    /\ t \in Advertisers \cup {Readvertiser}
    /\ task[t].pc = "Lock"
    /\ CanLock(mu)
    /\ mu' = [mu EXCEPT !.writer = t]
    /\ task' = [task EXCEPT
                  ![t] = IF TaskBridge(t).ID = ""
                         THEN [@ EXCEPT !.pc = "Unlock", !.ret = "bridge ID required"]
                         ELSE [@ EXCEPT !.pc = Following("Lock"), !.ret = NULL]]
    /\ UNCHANGED <<handlerVars, concRest>>

\* line 62: h.mcpBridges[bridge.ID] = bridge
BridgeStore(t) ==
    /\ t \in Advertisers \cup {Readvertiser}
    /\ task[t].pc = "store"
    /\ mcpBridges' = Put(mcpBridges, TaskBridge(t).ID, TaskBridge(t))
    /\ \E now \in NowVals :
          task' = [task EXCEPT
                     ![t] = Advertised(@, IF onMCPBridge THEN Following("store")
                                          ELSE Following("onMCPBridge"),
                                       NULL, now)]
    /\ UNCHANGED <<mu, capabilities, onMessage, onMCPBridge, call, registered,
                   advertised, concRest>>

\* lines 65-69: the callback, entered when the task reaches "onMCPBridge",
\* returns and reports
BridgeNotified(t) ==
    /\ t \in Advertisers \cup {Readvertiser}
    /\ task[t].pc = "onMCPBridge"
    /\ \E report \in Reports(onMCPBridge), now \in NowVals :
          task' = [task EXCEPT
                     ![t] = Advertised([@ EXCEPT !.report = report],
                                       Following("onMCPBridge"),
                                       IF report = "fail"
                                       THEN "mcp bridge notification failed"
                                       ELSE NULL, now)]
    /\ UNCHANGED <<mu, handlerVars, concRest>>

\* the deferred h.mu.Unlock(): at the return of RegisterMCPBridge
BridgeUnlock(t) ==
    /\ t \in Advertisers \cup {Readvertiser}
    /\ task[t].pc = "Unlock"
    /\ mu' = [mu EXCEPT !.writer = NoTask]
    /\ \E now \in NowVals :
          task' = [task EXCEPT
                     ![t] = Advertised(@, IF task[t].ret # NULL THEN "return"
                                          ELSE Following("Unlock"),
                                       task[t].ret, now)]
    /\ UNCHANGED <<handlerVars, concRest>>

\* the callers of RegisterMCPBridge there are
Advertising == DOMAIN task \cap (Advertisers \cup {Readvertiser})

\* an MCPBridgeRequest is issued: handleMCPBridgeRequest decodes it
\* (lines 179-186)
RequestBegin ==
    /\ task[Requester].pc = "idle"
    /\ task' = [task EXCEPT ![Requester].pc = "RLock",
                            ![Requester].after =
                                {t \in Advertising : task[t].pc = "done"}]
    /\ UNCHANGED <<mu, handlerVars, concRest>>

\* line 188: h.mu.RLock()
BridgeRLock ==
    /\ task[Requester].pc = "RLock"
    /\ CanRLock(mu)
    /\ mu' = [mu EXCEPT !.readers = @ \cup {Requester}]
    /\ task' = [task EXCEPT ![Requester].pc = "lookup"]
    /\ UNCHANGED <<handlerVars, concRest>>

\* line 189: the lookup in the map.  The map holds pointers and an
\* advertisement stores a pointer to a record of its own
\* (handleMCPBridgeAdvertise, line 161), so what the task holds from here on
\* is the record that was in the map at this moment.
BridgeLookup ==
    /\ task[Requester].pc = "lookup"
    /\ task' = [task EXCEPT
                  ![Requester].pc = "RUnlock",
                  ![Requester].seen = {t \in Advertising : task[t].pc = "done"},
                  ![Requester].found =
                     IF TaskRequest.bridgeId \in DOMAIN mcpBridges
                     THEN <<mcpBridges[TaskRequest.bridgeId]>> ELSE <<>>]
    /\ UNCHANGED <<mu, handlerVars, concRest>>

\* line 190: h.mu.RUnlock()
BridgeRUnlock ==
    /\ task[Requester].pc = "RUnlock"
    /\ mu' = [mu EXCEPT !.readers = @ \ {Requester}]
    /\ task' = [task EXCEPT ![Requester].pc = "scan"]
    /\ UNCHANGED <<handlerVars, concRest>>

\* a task that looks the bridge up again each time it uses it: the change
\* C25 is tried against
BridgeHeld_Reread(rec, bridges) == bridges[TaskRequest.bridgeId]

\* the local variable bridge of handleMCPBridgeRequest after the lookup: the
\* record found, whatever the map holds by now
BridgeHeld(rec, bridges) == rec.found[1]

\* the registries as handleMCPBridgeRequest sees them after the lookup
Looked(rec, bridges) ==
    [capabilities |-> capabilities,
     mcpBridges |-> IF rec.found = <<>> THEN EmptyMap
                    ELSE Put(EmptyMap, TaskRequest.bridgeId, BridgeHeld(rec, bridges))]

\* lines 192-208, outside the lock: the bridge not found, or the scan of its
\* data types
BridgeScan ==
    /\ task[Requester].pc = "scan"
    /\ \E now \in NowVals :
         \E r \in {HandleMessage(Looked(task[Requester], mcpBridges),
                                 Request(MCPBridgeRequest,
                                         RequestDoc(TaskRequest.bridgeId,
                                                    TaskRequest.dataType)),
                                 Env(now))} :
            task' = [task EXCEPT
                       ![Requester] =
                          IF r.resp[1].Type = MCPBridgeResponse
                          THEN [@ EXCEPT !.pc = "Marshal"]
                          ELSE [@ EXCEPT !.pc = "done", !.ret = r.err,
                                         !.resp = r.resp]]
    /\ UNCHANGED <<mu, handlerVars, concRest>>

\* lines 210-220, outside the lock: json.Marshal(bridge) and the response
BridgeMarshal ==
    /\ task[Requester].pc = "Marshal"
    /\ \E now \in NowVals :
          task' = [task EXCEPT
                     ![Requester].pc = "done",
                     ![Requester].ret = NULL,
                     ![Requester].resp =
                        <<Message(V1, MCPBridgeResponse, U32(0),
                                  MarshalBridge(BridgeHeld(task[Requester],
                                                           mcpBridges)),
                                  now)>>]
    /\ UNCHANGED <<mu, handlerVars, concRest>>

\* a Hello is handled: HandleMessage, handleHello (lines 77-78, 97-105)
HelloCall ==
    /\ task[Greeter].pc = "idle"
    /\ \E p \in {<<>>, <<7>>}, now \in NowVals :
         \E r \in {HandleMessage([capabilities |-> capabilities,
                                  mcpBridges |-> mcpBridges],
                                 Request(Hello, p), Env(now))} :
            /\ task' = [task EXCEPT ![Greeter].pc = "done",
                                    ![Greeter].ret = r.err,
                                    ![Greeter].resp = r.resp,
                                    ![Greeter].blocked = CallbackRunning]
            /\ capabilities' = r.capabilities
            /\ mcpBridges' = r.mcpBridges
    /\ UNCHANGED <<mu, onMessage, onMCPBridge, call, registered, advertised,
                   concRest>>

ConcNext ==
    \/ \E t \in Registrars : Lock(t)
    \/ \E t \in Registrars : MapLoad(t)
    \/ \E t \in Registrars : MapStore(t)
    \/ \E t \in Registrars : Unlock(t)
    \/ QueryBegin
    \/ RLock
    \/ QueryScan
    \/ RUnlock
    \/ \E t \in Advertisers : BridgeLock(t)
    \/ \E t \in Advertisers : BridgeStore(t)
    \/ \E t \in Advertisers : BridgeNotified(t)
    \/ \E t \in Advertisers : BridgeUnlock(t)
    \/ RequestBegin
    \/ BridgeRLock
    \/ BridgeLookup
    \/ BridgeRUnlock
    \/ BridgeScan
    \/ BridgeMarshal
    \/ HelloCall

----------------------------------------------------------------------------
(* Network server: pkg/network/server.go.  The accept loop, the receive    *)
(* loop, one task per accepted connection and per received datagram, and   *)
(* the Start and Stop calls; the clients and the clock are the             *)
(* environment.  A step that returns from a task runs its deferred calls   *)
(* (conn.Close, wg.Done) with it.                                          *)

TCPKinds == {"hello", "register", "advertise"}
PktKinds == {"query", "short", "handshake", "badquery"}

\* the messages the clients serialize
ClientMessage(kind) ==
    LET p == CASE kind = "register" ->
                    MarshalCapability(Capability("a", "n1", "DISCOVER", FALSE))
               [] kind = "advertise" -> MarshalBridge(MCPBridge("a", "e1", <<"x">>))
               [] kind = "query" -> QueryDoc("DISCOVER", FALSE)
               [] kind = "badquery" -> <<Tok.obj>>
               [] OTHER -> <<>>
        t == CASE kind = "register" -> Register
               [] kind = "advertise" -> MCPBridgeAdvertise
               [] kind \in {"query", "badquery"} -> Query
               [] kind = "handshake" -> Handshake
               [] OTHER -> Hello
    IN  Message(V1, t, U32(Len(p)), p, I64(FALSE, <<6000, 0, t, Len(p)>>))

\* the bytes a client sends: a complete serialized message (a Hello, a
\* Register, an MCPBridgeAdvertise, a Query, a Query whose payload is no
\* JSON, a Handshake), or three bytes that are none
Wire ==
    [kind \in TCPKinds \cup PktKinds |->
        IF kind = "short" THEN <<V1, Hello, 0>>
        ELSE Serialize(ClientMessage(kind)).data]

Max(set) == CHOOSE x \in set : \A y \in set : y <= x

\* the part of the receive buffer the datagrams of the model reach
BufferLen == Max({Len(Wire[k]) : k \in PktKinds})

\* make([]byte, n) filled by a read that returned the bytes got
Filled(n, got) == [i \in 1..n |-> IF i <= Len(got) THEN got[i] ELSE 0]

\* the bytes from..to of data copied into buf
Copy(buf, data, from, to) ==
    [i \in 1..Len(buf) |->
        IF from <= i /\ i <= to /\ i <= Len(data) THEN data[i] ELSE buf[i]]

\* an accepted connection, its task started
NewConn ==
    [sent |-> "", stream |-> <<>>, peer |-> "open", expired |-> FALSE,
     task |-> "Read", msg |-> <<>>, resp |-> <<>>, calls |-> 0,
     written |-> <<>>, closed |-> FALSE, log |-> NULL]

\* a datagram ReadFromUDP is returning
NewPkt(kind) ==
    [kind |-> kind, data |-> Wire[kind], task |-> "copying", n |-> 0,
     msg |-> <<>>, resp |-> <<>>, calls |-> 0, reply |-> <<>>, log |-> NULL]

\* an Add that counts one whatever it is given: the change C28 is tried
\* against
Add_One(w, delta) == w + 1

\* wg.Add(delta) and wg.Done()
Add(w, delta) == w + delta
Done(w) == w - 1

\* a task spawned without being counted: the change C7 is tried against
Spawn_Uncounted(w) == w

\* the wg.Add(1) of a loop before it spawns a task
Spawn(w) == Add(w, 1)

\* a read on the connection returns: with an error once the deadline has
\* passed or the peer has closed with nothing left to read, with bytes
\* otherwise
ReadReturns(rec) == rec.expired \/ rec.stream # <<>> \/ rec.peer = "closed"
ReadFails(rec) == rec.expired \/ rec.stream = <<>>

\* a return that leaves the connection open: the change C19 is tried against
ConnReturn_LeavesOpen(rec, log) == [rec EXCEPT !.task = "done", !.log = log]

\* the return of handleTCPConnection with its deferred conn.Close()
ConnReturn(rec, log) == [rec EXCEPT !.task = "done", !.closed = TRUE, !.log = log]

\* One step of handleTCPConnection on a connection whose task is at
\* rec.task: the connection after the step and the registries after it.
handleTCPConnection(rec, h, env) ==
    LET local(r) ==
            [conn |-> r, capabilities |-> h.capabilities, mcpBridges |-> h.mcpBridges]
    IN  CASE rec.task = "Read" ->
               IF ReadFails(rec)
               THEN local(ConnReturn(rec, "Failed to read TCP header"))
               ELSE LET n == IF Len(rec.stream) < 6 THEN Len(rec.stream) ELSE 6
                        header == Filled(6, SubSeq(rec.stream, 1, n))
                        rest == SubSeq(rec.stream, n + 1, Len(rec.stream))
                        d == Deserialize(header)
                    IN  IF d.err # NULL
                        THEN local(ConnReturn([rec EXCEPT !.stream = rest],
                                              "Failed to deserialize TCP message"))
                        ELSE local([rec EXCEPT
                                      !.stream = rest,
                                      !.msg = <<d.msg>>,
                                      !.task = IF d.msg.PayloadSize # U32(0)
                                               THEN "ReadPayload"
                                               ELSE "HandleMessage"])
          [] rec.task = "ReadPayload" ->
               IF ReadFails(rec)
               THEN local(ConnReturn(rec, "Failed to read TCP payload"))
               ELSE LET size == rec.msg[1].PayloadSize[1] * Limb
                                + rec.msg[1].PayloadSize[2]
                        n == IF Len(rec.stream) < size THEN Len(rec.stream) ELSE size
                        payload == Filled(size, SubSeq(rec.stream, 1, n))
                    IN  local([rec EXCEPT
                                 !.stream = SubSeq(rec.stream, n + 1, Len(rec.stream)),
                                 !.msg = <<[rec.msg[1] EXCEPT !.Payload = payload]>>,
                                 !.task = "HandleMessage"])
          [] rec.task = "HandleMessage" ->
               LET r == HandleMessage(h, rec.msg[1], env)
                   called == [rec EXCEPT !.calls = @ + 1]
               IN  [conn |-> IF r.err # NULL
                             THEN ConnReturn(called, "Failed to handle TCP message")
                             ELSE IF r.resp = <<>> THEN ConnReturn(called, NULL)
                             ELSE [called EXCEPT !.resp = r.resp, !.task = "Write"],
                    capabilities |-> r.capabilities,
                    mcpBridges |-> r.mcpBridges]
          [] rec.task = "Write" ->
               LET s == Serialize(rec.resp[1])
               IN  IF s.err # NULL
                   THEN local(ConnReturn(rec, "Failed to serialize TCP response"))
                   ELSE IF rec.expired
                   THEN local(ConnReturn(rec, "Failed to write TCP response"))
                   ELSE local(ConnReturn([rec EXCEPT !.written = s.data], NULL))

\* a return that reports a failure to the sender: the change C20 is tried
\* against
PktReturn_RepliesOnFailure(rec, log) ==
    [rec EXCEPT !.task = "done", !.log = log,
                !.reply = IF log # NULL THEN <<V1, Error>> ELSE @]

\* the return of handleUDPPacket
PktReturn(rec, log) == [rec EXCEPT !.task = "done", !.log = log]

\* One step of handleUDPPacket: data is what the slice handed to the task
\* holds when the step is taken, open whether the socket is still open.
handleUDPPacket(rec, data, open, h, env) ==
    LET local(r) ==
            [pkt |-> r, capabilities |-> h.capabilities, mcpBridges |-> h.mcpBridges]
    IN  CASE rec.task = "Deserialize" ->
               LET d == Deserialize(data)
               IN  IF d.err # NULL
                   THEN local(PktReturn(rec, "Failed to deserialize UDP message"))
                   ELSE local([rec EXCEPT !.msg = <<d.msg>>, !.task = "HandleMessage"])
          [] rec.task = "HandleMessage" ->
               LET r == HandleMessage(h, rec.msg[1], env)
                   called == [rec EXCEPT !.calls = @ + 1]
               IN  [pkt |-> IF r.err # NULL
                            THEN PktReturn(called, "Failed to handle UDP message")
                            ELSE IF r.resp = <<>> THEN PktReturn(called, NULL)
                            ELSE [called EXCEPT !.resp = r.resp, !.task = "WriteToUDP"],
                    capabilities |-> r.capabilities,
                    mcpBridges |-> r.mcpBridges]
          [] rec.task = "WriteToUDP" ->
               LET s == Serialize(rec.resp[1])
               IN  IF s.err # NULL
                   THEN local(PktReturn(rec, "Failed to serialize UDP response"))
                   ELSE IF ~open
                   THEN local(PktReturn(rec, "Failed to write UDP response"))
                   ELSE local(PktReturn([rec EXCEPT !.reply = s.data], NULL))

----------------------------------------------------------------------------
(* The server's actions *)

ServerInit ==
    /\ tcpListener = "nil"
    /\ udpConn = "nil"
    /\ ctxDone = FALSE
    /\ wg = 0
    /\ start = "none"
    /\ stop = [pc |-> "idle", err |-> NULL, returned |-> FALSE]
    /\ tcpLoop = "off"
    /\ udpLoop = "off"
    /\ buffer = [i \in 1..BufferLen |-> 0]
    /\ conns = <<>>
    /\ pkts = <<>>

\* Start, which runs before anything else does: it fails at net.Listen, at
\* net.ResolveUDPAddr or at net.ListenUDP, or starts the two loops.
Start ==
    /\ start = "none"
    /\ \E outcome \in {"ok", "failed to start TCP listener",
                       "failed to resolve UDP address",
                       "failed to start UDP listener"} :
          /\ start' = outcome
          /\ tcpListener' =
               CASE outcome = "failed to start TCP listener" -> "nil"
                 [] outcome = "failed to start UDP listener" -> "closed"
                 [] OTHER -> "open"
          /\ udpConn' = IF outcome = "ok" THEN "open" ELSE "nil"
          /\ wg' = IF outcome = "ok" THEN Add(wg, 2) ELSE wg
          /\ tcpLoop' = IF outcome = "ok" THEN "select" ELSE "off"
          /\ udpLoop' = IF outcome = "ok" THEN "select" ELSE "off"
    /\ UNCHANGED <<ctxDone, stop, buffer, conns, pkts, serverRest>>

\* a Stop that closes the sockets without cancelling the context: the
\* change C21 is tried against
Stop_NoCancel ==
    /\ start = "ok"
    /\ CASE stop.pc \in {"idle", "returned"} ->
              /\ stop' = [stop EXCEPT !.pc = "tcpListener.Close", !.err = NULL]
              /\ UNCHANGED <<ctxDone, tcpListener, udpConn>>
         [] stop.pc = "tcpListener.Close" ->
              /\ IF tcpListener = "open"
                 THEN stop' = [stop EXCEPT !.pc = "udpConn.Close"]
                 ELSE stop' = [stop EXCEPT !.pc = "returned", !.returned = TRUE,
                                           !.err = "failed to close TCP listener"]
              /\ tcpListener' = "closed"
              /\ UNCHANGED <<ctxDone, udpConn>>
         [] stop.pc = "udpConn.Close" ->
              /\ IF udpConn = "open"
                 THEN stop' = [stop EXCEPT !.pc = "wg.Wait"]
                 ELSE stop' = [stop EXCEPT !.pc = "returned", !.returned = TRUE,
                                           !.err = "failed to close UDP connection"]
              /\ udpConn' = "closed"
              /\ UNCHANGED <<ctxDone, tcpListener>>
         [] stop.pc = "wg.Wait" ->
              /\ wg = 0
              /\ stop' = [stop EXCEPT !.pc = "returned", !.returned = TRUE]
              /\ UNCHANGED <<ctxDone, tcpListener, udpConn>>
    /\ UNCHANGED <<wg, start, tcpLoop, udpLoop, buffer, conns, pkts, serverRest>>

\* Stop, step by step: cancel, close the listener, close the socket, wait.
\* A call made after an earlier call has returned finds the listener closed.
Stop ==
    /\ start = "ok"
    /\ CASE stop.pc \in {"idle", "returned"} ->
              /\ stop' = [stop EXCEPT !.pc = "tcpListener.Close", !.err = NULL]
              /\ ctxDone' = TRUE
              /\ UNCHANGED <<tcpListener, udpConn>>
         [] stop.pc = "tcpListener.Close" ->
              /\ IF tcpListener = "open"
                 THEN stop' = [stop EXCEPT !.pc = "udpConn.Close"]
                 ELSE stop' = [stop EXCEPT !.pc = "returned", !.returned = TRUE,
                                           !.err = "failed to close TCP listener"]
              /\ tcpListener' = "closed"
              /\ UNCHANGED <<ctxDone, udpConn>>
         [] stop.pc = "udpConn.Close" ->
              /\ IF udpConn = "open"
                 THEN stop' = [stop EXCEPT !.pc = "wg.Wait"]
                 ELSE stop' = [stop EXCEPT !.pc = "returned", !.returned = TRUE,
                                           !.err = "failed to close UDP connection"]
              /\ udpConn' = "closed"
              /\ UNCHANGED <<ctxDone, tcpListener>>
         [] stop.pc = "wg.Wait" ->
              /\ wg = 0
              /\ stop' = [stop EXCEPT !.pc = "returned", !.returned = TRUE]
              /\ UNCHANGED <<ctxDone, tcpListener, udpConn>>
    /\ UNCHANGED <<wg, start, tcpLoop, udpLoop, buffer, conns, pkts, serverRest>>

\* whether another client may still turn up
ClientsLeft == Len(conns) + Len(pkts) < MaxClients

\* the callbacks a HandleMessage call may consult, and the map order
Envs(calling) ==
    IF calling
    THEN {[now |-> now, order |-> order, onMessage |-> cb1, onMCPBridge |-> cb2] :
             now \in NowVals, order \in Perms(DOMAIN capabilities),
             cb1 \in Reports(onMessage), cb2 \in Reports(onMCPBridge)}
    ELSE {Env(CHOOSE now \in NowVals : TRUE)}

\* handleTCP: the select of the loop, then Accept, which returns the
\* connection a client makes, or an error (always once the listener is
\* closed); an accepted connection is counted and handed to a new task.
handleTCP ==
    /\ tcpLoop \in {"select", "Accept"}
    /\ IF tcpLoop = "select"
       THEN /\ tcpLoop' = IF ctxDone THEN "done" ELSE "Accept"
            /\ wg' = IF ctxDone THEN Done(wg) ELSE wg
            /\ UNCHANGED conns
       ELSE \E outcome \in {"error"} \cup
                           (IF tcpListener = "open" /\ ClientsLeft
                            THEN {"conn"} ELSE {}) :
                IF outcome = "error"
                THEN /\ tcpLoop' = IF ctxDone THEN "done" ELSE "select"
                     /\ wg' = IF ctxDone THEN Done(wg) ELSE wg
                     /\ UNCHANGED conns
                ELSE /\ tcpLoop' = "select"
                     /\ wg' = Spawn(wg)
                     /\ conns' = Append(conns, NewConn)
    /\ UNCHANGED <<tcpListener, udpConn, ctxDone, start, stop, udpLoop, buffer,
                   pkts, serverRest>>

\* a step of the task of connection c
ConnStep(c) ==
    /\ c \in DOMAIN conns
    /\ conns[c].task \in {"Read", "ReadPayload", "HandleMessage", "Write"}
    /\ conns[c].task \in {"Read", "ReadPayload"} => ReadReturns(conns[c])
    /\ \E env \in Envs(conns[c].task = "HandleMessage") :
         \E r \in {handleTCPConnection(
                      conns[c],
                      [capabilities |-> capabilities, mcpBridges |-> mcpBridges],
                      env)} :
            /\ conns' = [conns EXCEPT ![c] = r.conn]
            /\ capabilities' = r.capabilities
            /\ mcpBridges' = r.mcpBridges
            /\ wg' = IF r.conn.task = "done" THEN Done(wg) ELSE wg
    /\ UNCHANGED <<tcpListener, udpConn, ctxDone, start, stop, tcpLoop, udpLoop,
                   buffer, pkts, onMessage, onMCPBridge, call, registered,
                   advertised, codecVars, concVars>>

\* whether a task has yet to read the slice of the buffer it was handed
Unread == \E p \in DOMAIN pkts : pkts[p].task = "Deserialize"

\* handleUDP: the select of the loop, then ReadFromUDP, which copies the
\* datagram a client sends into the buffer and returns, or returns an error
\* (always once the socket is closed); a datagram read is counted and handed
\* to a new task as buffer[:n].  While a task has yet to read its slice the
\* copy is two steps, the first six bytes and then the rest, as the task may
\* read in the middle of it.
handleUDP ==
    /\ udpLoop \in {"select", "ReadFromUDP", "copy"}
    /\ CASE udpLoop = "select" ->
              /\ udpLoop' = IF ctxDone THEN "done" ELSE "ReadFromUDP"
              /\ wg' = IF ctxDone THEN Done(wg) ELSE wg
              /\ UNCHANGED <<buffer, pkts>>
         [] udpLoop = "ReadFromUDP" ->
              \E outcome \in {"error"} \cup
                             (IF udpConn = "open" /\ ClientsLeft
                              THEN PktKinds ELSE {}) :
                  IF outcome = "error"
                  THEN /\ udpLoop' = IF ctxDone THEN "done" ELSE "select"
                       /\ wg' = IF ctxDone THEN Done(wg) ELSE wg
                       /\ UNCHANGED <<buffer, pkts>>
                  ELSE IF Unread
                  THEN /\ udpLoop' = "copy"
                       /\ buffer' = Copy(buffer, Wire[outcome], 1, 6)
                       /\ pkts' = Append(pkts, NewPkt(outcome))
                       /\ UNCHANGED wg
                  ELSE /\ udpLoop' = "select"
                       /\ buffer' = Copy(buffer, Wire[outcome], 1, BufferLen)
                       /\ pkts' = Append(pkts, [NewPkt(outcome) EXCEPT
                                                  !.task = "Deserialize",
                                                  !.n = Len(Wire[outcome])])
                       /\ wg' = Spawn(wg)
         [] udpLoop = "copy" ->
              /\ buffer' = Copy(buffer, pkts[Len(pkts)].data, 7, BufferLen)
              /\ pkts' = [pkts EXCEPT ![Len(pkts)].task = "Deserialize",
                                      ![Len(pkts)].n = Len(pkts[Len(pkts)].data)]
              /\ wg' = Spawn(wg)
              /\ udpLoop' = "select"
    /\ UNCHANGED <<tcpListener, udpConn, ctxDone, start, stop, tcpLoop, conns,
                   serverRest>>

\* a step of the task of datagram p
PktStep(p) ==
    /\ p \in DOMAIN pkts
    /\ pkts[p].task \in {"Deserialize", "HandleMessage", "WriteToUDP"}
    /\ \E env \in Envs(pkts[p].task = "HandleMessage") :
         \E r \in {handleUDPPacket(
                      pkts[p], SubSeq(buffer, 1, pkts[p].n), udpConn = "open",
                      [capabilities |-> capabilities, mcpBridges |-> mcpBridges],
                      env)} :
            /\ pkts' = [pkts EXCEPT ![p] = r.pkt]
            /\ capabilities' = r.capabilities
            /\ mcpBridges' = r.mcpBridges
            /\ wg' = IF r.pkt.task = "done" THEN Done(wg) ELSE wg
    /\ UNCHANGED <<tcpListener, udpConn, ctxDone, start, stop, tcpLoop, udpLoop,
                   buffer, conns, onMessage, onMCPBridge, call, registered,
                   advertised, codecVars, concVars>>

\* the steps the server takes by itself
ServerStep ==
    \/ Stop
    \/ handleTCP
    \/ \E c \in 1..MaxClients : ConnStep(c)
    \/ handleUDP
    \/ \E p \in 1..MaxClients : PktStep(p)

(* The environment *)

\* a client sends one complete message on its connection
ClientSend(c) ==
    /\ c \in DOMAIN conns
    /\ conns[c].sent = "" /\ conns[c].peer = "open" /\ ~conns[c].closed
    /\ ~conns[c].expired
    /\ \E kind \in TCPKinds :
          conns' = [conns EXCEPT ![c].sent = kind, ![c].stream = Wire[kind]]
    /\ UNCHANGED <<tcpListener, udpConn, ctxDone, wg, start, stop, tcpLoop,
                   udpLoop, buffer, pkts, serverRest>>

\* a client closes its connection, having sent nothing
ClientClose(c) ==
    /\ c \in DOMAIN conns
    /\ conns[c].sent = "" /\ conns[c].peer = "open" /\ ~conns[c].closed
    /\ ~conns[c].expired
    /\ conns' = [conns EXCEPT ![c].peer = "closed"]
    /\ UNCHANGED <<tcpListener, udpConn, ctxDone, wg, start, stop, tcpLoop,
                   udpLoop, buffer, pkts, serverRest>>

\* the 30-second deadline of a connection passes while its task waits for
\* bytes
DeadlineExpires(c) ==
    /\ c \in DOMAIN conns
    /\ conns[c].task \in {"Read", "ReadPayload"}
    /\ conns[c].stream = <<>> /\ conns[c].peer = "open"
    /\ ~conns[c].expired
    /\ conns' = [conns EXCEPT ![c].expired = TRUE]
    /\ UNCHANGED <<tcpListener, udpConn, ctxDone, wg, start, stop, tcpLoop,
                   udpLoop, buffer, pkts, serverRest>>

ServerNext ==
    \/ Start
    \/ ServerStep
    \/ \E c \in 1..MaxClients : ClientSend(c)
    \/ \E c \in 1..MaxClients : ClientClose(c)
    \/ \E c \in 1..MaxClients : DeadlineExpires(c)

----------------------------------------------------------------------------
(* Specifications *)

vars == <<codecVars, handlerVars, concVars, serverVars>>

CodecIdle ==
    /\ msg = NoMessage
    /\ wire = <<>>
    /\ out = [op |-> "none"]
    /\ big = [op |-> "none"]

HandlerIdle ==
    /\ capabilities = EmptyMap
    /\ mcpBridges = EmptyMap
    /\ onMessage = FALSE
    /\ onMCPBridge = FALSE
    /\ call = [op |-> "none"]
    /\ registered = EmptyMap
    /\ advertised = EmptyMap

ConcIdle ==
    /\ mu = [writer |-> NoTask, readers |-> {}]
    /\ task = [t \in {} |-> 0]

\* a server that is never started
ServerIdle == ServerInit

\* the Handler of a server, made with both callbacks (cmd/server/main.go)
ServerHandlerInit ==
    /\ capabilities = NewHandler.capabilities
    /\ mcpBridges = NewHandler.mcpBridges
    /\ onMessage = TRUE
    /\ onMCPBridge = TRUE
    /\ call = [op |-> "NewHandler"]
    /\ registered = EmptyMap
    /\ advertised = EmptyMap

\* the codec applied to one input
InitCodec == CodecInit /\ HandlerIdle /\ ConcIdle /\ ServerIdle
SpecCodec ==
    /\ InitCodec
    /\ [][CodecNext]_vars

\* calls on one Handler, one at a time
InitHandler == HandlerInit /\ CodecIdle /\ ConcIdle /\ ServerIdle
SpecHandler ==
    /\ InitHandler
    /\ [][HandlerNext]_vars

\* concurrent calls on one Handler made with both callbacks
InitConc == ConcInit /\ ServerHandlerInit /\ CodecIdle /\ ServerIdle
SpecConc ==
    /\ InitConc
    /\ [][ConcNext]_vars

\* one call of each kind that takes the lock, and an advertisement with an
\* empty id, made concurrently on one Handler; a caller that can take a step
\* takes one in the end, and the callbacks return
Callers == {TaskNames[1], Querier, "adv", "adv0", Requester}
CallersInit ==
    /\ mu = [writer |-> NoTask, readers |-> {}]
    /\ task = [t \in Callers |->
                 [pc |-> IF t \in {Querier, Requester} THEN "idle" ELSE "Lock",
                  snap |-> EmptyMap, found |-> <<>>, after |-> {}, seen |-> {},
                  resp |-> <<>>, ret |-> "running", report |-> "none",
                  blocked |-> FALSE]]
CallersNext ==
    \/ \E t \in Callers \cap Registrars : Lock(t)
    \/ \E t \in Callers \cap Registrars : MapLoad(t)
    \/ \E t \in Callers \cap Registrars : MapStore(t)
    \/ \E t \in Callers \cap Registrars : Unlock(t)
    \/ QueryBegin
    \/ RLock
    \/ QueryScan
    \/ RUnlock
    \/ \E t \in Callers \cap Advertisers : BridgeLock(t)
    \/ \E t \in Callers \cap Advertisers : BridgeStore(t)
    \/ \E t \in Callers \cap Advertisers : BridgeNotified(t)
    \/ \E t \in Callers \cap Advertisers : BridgeUnlock(t)
    \/ RequestBegin
    \/ BridgeRLock
    \/ BridgeLookup
    \/ BridgeRUnlock
    \/ BridgeScan
    \/ BridgeMarshal
InitCallers == CallersInit /\ ServerHandlerInit /\ CodecIdle /\ ServerIdle
SpecCallersFair ==
    /\ InitCallers
    /\ [][CallersNext]_vars
    /\ WF_vars(CallersNext)

\* one bridge id advertised by two callers, each with its own record, while
\* a third requests it
BridgeTasks == {"adv", Readvertiser, Requester}
BridgeInit ==
    /\ mu = [writer |-> NoTask, readers |-> {}]
    /\ task = [t \in BridgeTasks |->
                 [pc |-> IF t = Requester THEN "idle" ELSE "Lock",
                  snap |-> EmptyMap, found |-> <<>>, after |-> {}, seen |-> {},
                  resp |-> <<>>, ret |-> "running", report |-> "none",
                  blocked |-> FALSE]]
BridgeNext ==
    \/ \E t \in BridgeTasks \ {Requester} : BridgeLock(t)
    \/ \E t \in BridgeTasks \ {Requester} : BridgeStore(t)
    \/ \E t \in BridgeTasks \ {Requester} : BridgeNotified(t)
    \/ \E t \in BridgeTasks \ {Requester} : BridgeUnlock(t)
    \/ RequestBegin
    \/ BridgeRLock
    \/ BridgeLookup
    \/ BridgeRUnlock
    \/ BridgeScan
    \/ BridgeMarshal
InitBridge == BridgeInit /\ ServerHandlerInit /\ CodecIdle /\ ServerIdle
SpecBridge ==
    /\ InitBridge
    /\ [][BridgeNext]_vars

\* one server with its clients
InitServer == ServerInit /\ ServerHandlerInit /\ CodecIdle /\ ConcIdle
SpecServer ==
    /\ InitServer
    /\ [][ServerNext]_vars

\* the steps of a Stop call once it is made
StopProceeds == Stop /\ stop.pc \notin {"idle", "returned"}

\* the steps a loop takes without a client: its select, the rest of a copy
\* and the return of Accept or ReadFromUDP once the socket is closed
AcceptProceeds == handleTCP /\ (tcpLoop = "select" \/ tcpListener # "open")
ReceiveProceeds == handleUDP /\ (udpLoop # "ReadFromUDP" \/ udpConn # "open")

\* one server with its clients, the Stop call and the two loops being run
\* whenever they can run; the tasks of the connections and datagrams, the
\* clients and the clock are under no obligation
FairServer ==
    /\ WF_vars(StopProceeds)
    /\ WF_vars(AcceptProceeds)
    /\ WF_vars(ReceiveProceeds)
SpecServerFair ==
    /\ InitServer
    /\ [][ServerNext]_vars
    /\ FairServer

----------------------------------------------------------------------------
(* Claims about the codec *)

\* C1: for every message (any version byte, any type byte, any payload up to
\* MaxPayload bytes, empty included, any int64 Unix-nanosecond timestamp,
\* negative included) Serialize succeeds and Deserialize of its output
\* succeeds with the same version, type, payload bytes and timestamp.
C1_RoundTrip ==
    /\ out.op = "Serialize" => out.err = NULL
    /\ (out.op = "Deserialize" /\ out.from = "Serialize") =>
          /\ out.err = NULL
          /\ out.msg.Version = msg.Version
          /\ out.msg.Type = msg.Type
          /\ out.msg.Payload = msg.Payload
          /\ out.msg.Timestamp = msg.Timestamp

C1_Witness ==
    /\ out.op = "Deserialize"
    /\ out.from = "Serialize"
    /\ msg.Timestamp.neg
    /\ msg.Payload = <<255, 0>>
    /\ msg.Type = 255

\* C2: Deserialize fails with "message too short" on every buffer shorter
\* than 14 bytes and with "invalid message size" on every buffer of length
\* L >= 14 whose declared payload length d does not satisfy L = 6 + d + 8
\* (in the integers), and returns no message in either case.
C2_SizeChecked ==
    /\ (out.op = "Deserialize" /\ out.from = "buffer") =>
          /\ Len(wire) < 14 => out.err = "message too short"
          /\ (Len(wire) >= 14
              /\ LenOf(wire) # LenPlus(Widen(Uint32(SubSeq(wire, 3, 6))), 14))
                => out.err = "invalid message size"
          /\ out.err # NULL => out.msg = NULL
    /\ big.op = "Deserialize" =>
          /\ LenLess(big.len, 14) =>
                big.err = "message too short" /\ ~big.returned
          /\ (~LenLess(big.len, 14)
              /\ big.len # LenPlus(Widen(big.declared), 14))
                => big.err = "invalid message size" /\ ~big.returned

----------------------------------------------------------------------------
(* Claims about the handler *)

\* whether message m is an Error message carrying code
IsError(m, code) ==
    /\ m.Type = Error
    /\ SubSeq(m.Payload, 1, 5)
         = <<Tok.obj, K("code"), Tok.num, code \div 256, code % 256>>

\* the ids of the registered capabilities a filter admits
Admitted(filter) ==
    {id \in DOMAIN registered :
        /\ registered[id].Type = filter.capabilityType
        /\ filter.mcpEnabled => registered[id].MCPEnabled}

\* C3: whatever the registry holds, a Query with filter {capabilityType,
\* mcpEnabled} is answered, without error, by a Response message whose list
\* holds exactly the registered capabilities of that type (and, when the
\* filter's mcpEnabled is true, with mcpEnabled true), each once, in some
\* order; the list is empty when none matches.
C3_QueryAnswer ==
    call.op = "Query" =>
        /\ call.err = NULL
        /\ Len(call.resp) = 1
        /\ call.resp[1].Type = Response
        /\ \E order \in Perms(Admitted(call.arg)) :
               call.resp[1].Payload
                 = MarshalCapabilities([i \in 1..Len(order) |-> registered[order[i]]])

C3_Witness ==
    /\ call.op = "Query"
    /\ call.arg.mcpEnabled
    /\ Cardinality(Admitted(call.arg)) = 1
    /\ \E id \in DOMAIN registered :
          /\ registered[id].Type = call.arg.capabilityType
          /\ ~registered[id].MCPEnabled

\* C4: the registry holds exactly one entry per id successfully registered,
\* and it is, in every field, the capability of the latest registration
\* with that id; the list a Query is answered with has as many entries as
\* there are registered ids the filter admits, none twice.
C4_LastWriteWins ==
    /\ DOMAIN capabilities = DOMAIN registered
    /\ \A id \in DOMAIN capabilities : capabilities[id] = registered[id]
    /\ call.op = "Query" =>
          Cardinality({i \in 1..Len(call.resp[1].Payload) :
                          call.resp[1].Payload[i] = Tok.obj})
            = Cardinality(Admitted(call.arg))

C4_Witness ==
    /\ call.op \in {"Register", "RegisterCapability"}
    /\ call.arg.ID \in call.ids0
    /\ call.changed
    /\ call.arg.Name = ""
    /\ Cardinality(DOMAIN capabilities) = 2

\* the data types of a bridge, as a set
TypesOf(bridge) == {bridge.DataTypes[i] : i \in 1..Len(bridge.DataTypes)}

\* C5: an MCPBridgeRequest {bridgeId, dataType} is answered with an Error
\* message carrying MCPEndpointUnavailable when bridgeId is no key of the
\* bridge registry, with an Error message carrying MCPProtocolMismatch when
\* the bridge last advertised under bridgeId does not list dataType, and
\* otherwise with an MCPBridgeResponse message carrying that bridge; the
\* request changes neither registry.
C5_BridgeRequest ==
    call.op = "MCPBridgeRequest" =>
        LET id == call.arg.bridgeId
            dt == call.arg.dataType
        IN  /\ call.err = NULL
            /\ Len(call.resp) = 1
            /\ ~call.changed
            /\ DOMAIN advertised = DOMAIN mcpBridges
            /\ id \notin DOMAIN mcpBridges =>
                  IsError(call.resp[1], ErrMCPEndpointUnavailable)
            /\ (id \in DOMAIN advertised /\ dt \notin TypesOf(advertised[id])) =>
                  IsError(call.resp[1], ErrMCPProtocolMismatch)
            /\ (id \in DOMAIN advertised /\ dt \in TypesOf(advertised[id])) =>
                  /\ call.resp[1].Type = MCPBridgeResponse
                  /\ call.resp[1].Payload = MarshalBridge(advertised[id])

C5_Witness ==
    /\ call.op = "MCPBridgeRequest"
    /\ call.resp[1].Type = MCPBridgeResponse
    /\ call.arg.dataType = "y"

----------------------------------------------------------------------------
(* Claims about concurrent calls *)

\* C6: with MaxTasks tasks registering capabilities with distinct non-empty
\* ids concurrently on one Handler, every registration that returned
\* reported no error, and a Query issued after a set of registrations had
\* returned is answered with a list that holds each of them (with all
\* MaxTasks when it was issued after all of them): no update is lost.
C6_NoLostUpdate ==
    /\ \A t \in Registrars : task[t].pc = "done" => task[t].ret = NULL
    /\ task[Querier].pc = "done" =>
          \E seen \in SUBSET Registrars :
              /\ task[Querier].after \subseteq seen
              /\ \E order \in Perms(seen) :
                    /\ task[Querier].resp[1].Type = Response
                    /\ task[Querier].resp[1].Payload =
                         MarshalCapabilities(
                             [i \in 1..Len(order) |-> TaskCap(order[i])])

C6_Witness ==
    /\ task[Querier].pc = "done"
    /\ task[Querier].after = Registrars
    /\ DOMAIN capabilities = Registrars

----------------------------------------------------------------------------
(* Claims about the server *)

\* every task spawned for a connection or a datagram has finished
AllFinished ==
    /\ \A c \in DOMAIN conns : conns[c].task = "done"
    /\ \A p \in DOMAIN pkts : pkts[p].task = "done"

\* C7: in every state where a Stop call on a started server has returned,
\* every task spawned for an accepted connection or a received datagram has
\* finished and both loops have ended, and from then on no connection is
\* accepted and no datagram is received.
C7_StopComplete ==
    /\ [](stop.returned => (AllFinished /\ tcpLoop = "done" /\ udpLoop = "done"))
    /\ [][stop.returned => (Len(conns') = Len(conns) /\ Len(pkts') = Len(pkts))]_vars

C7_Witness ==
    /\ stop.returned /\ stop.err = NULL
    /\ \E c \in DOMAIN conns : conns[c].sent = "hello"
    /\ \E p \in DOMAIN pkts : pkts[p].reply # <<>>

\* C8: once the task of a connection on which the client sent one complete
\* serialized message has ended, it has called HandleMessage once, with a
\* message of the version, type and payload sent, and has written a
\* serialized response: a Hello for a Hello, a Response for a Register and
\* for an MCPBridgeAdvertise.
C8_TCPExchange ==
    \A c \in DOMAIN conns :
        (conns[c].task = "done" /\ conns[c].sent # "") =>
            /\ conns[c].calls = 1
            /\ conns[c].msg[1].Version = ClientMessage(conns[c].sent).Version
            /\ conns[c].msg[1].Type = ClientMessage(conns[c].sent).Type
            /\ conns[c].msg[1].Payload = ClientMessage(conns[c].sent).Payload
            /\ conns[c].written # <<>>
            /\ Deserialize(conns[c].written).msg.Type =
                 IF conns[c].sent = "hello" THEN Hello ELSE Response

\* C9: once the task of a received datagram has ended without a failed
\* write, a datagram that is a complete serialized message has had
\* HandleMessage called once on its message and the response, when there
\* is one, sent back to its sender (a Response for a Query, also with an
\* empty registry, an Error for a Query that does not decode, nothing for
\* a Handshake), and a datagram that does not decode has had no call and no
\* reply.
C9_UDPExchange ==
    \A p \in DOMAIN pkts :
        (pkts[p].task = "done" /\ pkts[p].log # "Failed to write UDP response") =>
            IF Deserialize(pkts[p].data).err # NULL
            THEN pkts[p].calls = 0 /\ pkts[p].reply = <<>>
            ELSE /\ pkts[p].calls = 1
                 /\ pkts[p].msg[1] = Deserialize(pkts[p].data).msg
                 /\ IF pkts[p].kind = "handshake" THEN pkts[p].reply = <<>>
                    ELSE /\ pkts[p].reply # <<>>
                         /\ Deserialize(pkts[p].reply).msg.Type =
                              IF pkts[p].kind = "query" THEN Response ELSE Error

\* a connection accepted on which the client has sent nothing and which it
\* has not closed, its deadline not passed
Idle(c) ==
    /\ conns[c].task = "Read"
    /\ conns[c].sent = "" /\ conns[c].peer = "open" /\ ~conns[c].expired

\* C10: a Stop call that waits while an accepted connection is idle does
\* not depend on the client or on the deadline: some step of the server
\* itself is possible; and once Stop has returned without error the server
\* has closed every accepted connection.
C10_StopPrompt ==
    /\ (stop.pc = "wg.Wait" /\ \E c \in DOMAIN conns : Idle(c)) => ENABLED ServerStep
    /\ (stop.returned /\ stop.err = NULL) => \A c \in DOMAIN conns : conns[c].closed

----------------------------------------------------------------------------
(* Claims about the error codes and the layout of the envelope *)

\* the calls that went through HandleMessage
Dispatched ==
    call.op \in {"Hello", "Register", "Query", "MCPBridgeAdvertise",
                 "MCPBridgeRequest", "Undecodable", "Odd", "Other"}

\* the number an Error message carries
CodeOf(m) == m.Payload[4] * 256 + m.Payload[5]

\* C11: every Error message the Handler produces carries one of the codes
\* 102, 302, 400, 401 of the documented registry, and the twelve codes are
\* 100, 101, 102, 200, 201, 202, 300, 301, 302, 400, 401, 402.
C11_DocumentedCodes ==
    (Dispatched /\ call.resp # <<>> /\ call.resp[1].Type = Error) =>
        /\ CodeOf(call.resp[1]) \in {102, 302, 400, 401}
        /\ <<ErrInvalidVersion, ErrInvalidMessageType, ErrInvalidPayload,
              ErrUnauthorized, ErrForbidden, ErrInvalidCredentials,
              ErrCapabilityNotFound, ErrCapabilityUnavailable,
              ErrInvalidCapabilityFormat, ErrMCPEndpointUnavailable,
              ErrMCPProtocolMismatch, ErrMCPAuthenticationFailed>>
             = <<100, 101, 102, 200, 201, 202, 300, 301, 302, 400, 401, 402>>

\* the sum of two 64-bit words, wrapping at 2^64
Sum64(x, y) ==
    LET s4 == x[4] + y[4]
        s3 == x[3] + y[3] + (s4 \div Limb)
        s2 == x[2] + y[2] + (s3 \div Limb)
        s1 == x[1] + y[1] + (s2 \div Limb)
    IN  <<s1 % Limb, s2 % Limb, s3 % Limb, s4 % Limb>>

\* C12: Serialize of a message with payload p returns 14 + len(p) bytes:
\* the version, the type, len(p) as four big-endian bytes, p unchanged, and
\* the Unix-nanosecond timestamp as eight big-endian bytes of its unsigned
\* 64-bit value (for a negative timestamp the value that added to its
\* magnitude gives 2^64); the PayloadSize field has no influence.
C12_Layout ==
    out.op = "Serialize" =>
        LET p == msg.Payload
            n == Len(p)
            ts == Uint64(SubSeq(wire, 7 + n, 14 + n))
        IN  /\ out.err = NULL
            /\ Len(wire) = 14 + n
            /\ wire[1] = msg.Version
            /\ wire[2] = msg.Type
            /\ wire[3] = 0 /\ wire[4] = 0 /\ wire[5] * 256 + wire[6] = n
            /\ SubSeq(wire, 7, 6 + n) = p
            /\ \A i \in 7 + n .. 14 + n : wire[i] \in 0..255
            /\ IF msg.Timestamp.neg
               THEN Sum64(ts, msg.Timestamp.mag) = <<0, 0, 0, 0>>
               ELSE ts = msg.Timestamp.mag
            /\ \A sz \in SizeVals :
                  wire = Serialize([msg EXCEPT !.PayloadSize = sz]).data

C12_Witness ==
    /\ out.op = "Serialize"
    /\ msg.Payload = <<0, 255>>
    /\ msg.PayloadSize = U32(7)
    /\ msg.Timestamp = I64(TRUE, <<1, 0, 65535, 0>>)

----------------------------------------------------------------------------
(* Claims about the bridge notification and the lock *)

\* the bridge of task t is in the registry
Stored(t) ==
    /\ TaskBridge(t).ID \in DOMAIN mcpBridges
    /\ mcpBridges[TaskBridge(t).ID] = TaskBridge(t)

\* C13: RegisterMCPBridge with a non-empty id has stored the bridge when
\* the callback is invoked; when the callback reports failure the call
\* fails and the MCPBridgeAdvertise is answered with an Error message
\* carrying MCPEndpointUnavailable, yet the bridge stays stored and an
\* MCPBridgeRequest issued afterwards for its id and a data type of its
\* returns it.  With an empty id the call fails, nothing is stored and the
\* callback is not invoked.
C13_StoreThenNotify ==
    /\ \A t \in Advertisers :
          /\ (task[t].pc = "onMCPBridge" \/ task[t].report # "none") => Stored(t)
          /\ (task[t].pc = "done" /\ task[t].report = "fail") =>
                /\ task[t].ret # NULL
                /\ IsError(task[t].resp[1], ErrMCPEndpointUnavailable)
          /\ (task[t].pc = "done" /\ task[t].report = "ok") =>
                /\ task[t].ret = NULL
                /\ task[t].resp[1].Type = Response
          /\ TaskBridge(t).ID = "" =>
                /\ task[t].report = "none"
                /\ task[t].pc # "onMCPBridge"
                /\ task[t].pc = "done" =>
                      /\ task[t].ret # NULL
                      /\ IsError(task[t].resp[1], ErrMCPEndpointUnavailable)
    /\ "" \notin DOMAIN mcpBridges
    /\ (task[Requester].pc = "done" /\ "adv" \in task[Requester].after) =>
          /\ task[Requester].resp[1].Type = MCPBridgeResponse
          /\ task[Requester].resp[1].Payload = MarshalBridge(TaskBridge("adv"))

C13_Witness ==
    /\ task[Requester].pc = "done"
    /\ "adv" \in task[Requester].after
    /\ task["adv"].report = "fail"
    /\ task["adv0"].pc = "done"

\* task t is inside the critical section of its registry operation
InCritical(t) ==
    CASE t \in Registrars -> task[t].pc \in {"load", "store", "Unlock"}
      [] t \in Advertisers -> task[t].pc \in {"store", "onMCPBridge", "Unlock"}
      [] t = Querier -> task[t].pc \in {"scan", "RUnlock"}
      [] t = Requester -> task[t].pc \in {"lookup", "RUnlock"}
      [] OTHER -> FALSE

\* task t has left the critical section of its registry operation: the
\* operation has returned, or the lookup of an MCPBridgeRequest has given
\* the shared lock up
Passed(t) ==
    IF t = Requester THEN task[t].pc \in {"scan", "Marshal", "done"}
    ELSE task[t].pc = "done"

\* C14: while a callback invoked by RegisterMCPBridge has started and not
\* returned, no RegisterCapability, no other RegisterMCPBridge, no Query
\* scan and no MCPBridgeRequest lookup is inside its critical section, and
\* no such operation completes before the callback has returned.
C14_CallbackHoldsLock ==
    /\ [](\A t \in Advertisers :
             task[t].pc = "onMCPBridge" =>
                 \A u \in Tasks \ {t} : ~InCritical(u))
    /\ [][CallbackRunning =>
             \A u \in Tasks \ {Greeter} : Passed(u)' => Passed(u)]_vars

C14_Witness ==
    /\ CallbackRunning
    /\ task[Querier].pc = "RLock"
    /\ task[Requester].pc = "RLock"
    /\ \E t \in Registrars : task[t].pc = "Lock"
    /\ task["adv0"].pc = "Lock"

\* C15: a writer (a capability or a bridge registration) is never inside
\* its critical section together with another writer or with a reader; a
\* Query is answered with the filter applied to the registry as left by
\* the registrations completed when it scanned, those that had returned
\* when it was issued among them; an MCPBridgeRequest finds the bridge
\* exactly when its advertisement had completed at the lookup.
C15_Linearizable ==
    /\ \A w \in Registrars \cup Advertisers :
          InCritical(w) => \A t \in Tasks \ {w} : ~InCritical(t)
    /\ task[Querier].pc = "done" =>
          /\ task[Querier].after \subseteq task[Querier].seen
          /\ task[Querier].resp[1].Type = Response
          /\ \E order \in Perms(task[Querier].seen) :
                task[Querier].resp[1].Payload =
                    MarshalCapabilities([i \in 1..Len(order) |-> TaskCap(order[i])])
    /\ task[Requester].pc = "done" =>
          /\ task[Requester].after \subseteq task[Requester].seen
          /\ IF "adv" \in task[Requester].seen
             THEN task[Requester].resp[1].Payload = MarshalBridge(TaskBridge("adv"))
             ELSE IsError(task[Requester].resp[1], ErrMCPEndpointUnavailable)

\* two readers inside together, between two registrations
C15_Witness ==
    /\ InCritical(Querier)
    /\ InCritical(Requester)
    /\ \E t \in Registrars : task[t].pc = "done"
    /\ \E t \in Registrars : task[t].pc = "Lock"

\* C16: a Hello is answered with a Hello message of version V1 and empty
\* payload, whatever the payload of the request; handling it waits for no
\* lock, so it is possible in every state, also while a bridge callback
\* holds the exclusive lock; it leaves both registries and the lock alone.
C16_HelloNeverWaits ==
    /\ [](task[Greeter].pc = "done" =>
             /\ task[Greeter].ret = NULL
             /\ Len(task[Greeter].resp) = 1
             /\ task[Greeter].resp[1].Type = Hello
             /\ task[Greeter].resp[1].Version = V1
             /\ task[Greeter].resp[1].Payload = <<>>)
    /\ [](task[Greeter].pc = "idle" => ENABLED HelloCall)
    /\ [][task[Greeter].pc # task'[Greeter].pc =>
             UNCHANGED <<capabilities, mcpBridges, mu>>]_vars

C16_Witness ==
    /\ task[Greeter].pc = "done"
    /\ task[Greeter].blocked
    /\ CallbackRunning

----------------------------------------------------------------------------
(* Claims about the dispatch of HandleMessage *)

\* C17: a Register message is answered, HandleMessage reporting no failure,
\* with an Error message carrying InvalidPayload when the payload does not
\* decode, with an Error message carrying InvalidCapabilityFormat when the
\* decoded capability has an empty id (also when the id is left out, or
\* given twice and empty the last time), both registries unchanged in the
\* two cases; and otherwise with a Response message of empty payload, the
\* capability then being in the registry.
C17_RegisterOutcomes ==
    (Dispatched /\ call.msg.Type = Register) =>
        /\ call.err = NULL
        /\ Len(call.resp) = 1
        /\ call.op = "Undecodable" =>
              IsError(call.resp[1], ErrInvalidPayload) /\ ~call.changed
        /\ (call.op = "Odd" \/ (call.op = "Register" /\ call.arg.ID = "")) =>
              IsError(call.resp[1], ErrInvalidCapabilityFormat) /\ ~call.changed
        /\ (call.op = "Register" /\ call.arg.ID # "") =>
              /\ call.resp[1].Type = Response
              /\ call.resp[1].Payload = <<>>
              /\ call.arg.ID \in DOMAIN capabilities
              /\ capabilities[call.arg.ID] = call.arg
        /\ "" \notin DOMAIN capabilities

C17_Witness ==
    /\ call.op = "Register"
    /\ call.arg.ID = ""
    /\ DOMAIN capabilities = {"a", "b"}
    /\ DOMAIN mcpBridges = {"a"}

\* a connection task and a datagram task that have decoded message m
ConnWith(m) == [NewConn EXCEPT !.task = "HandleMessage", !.msg = <<m>>]
PktWith(m) == [NewPkt("handshake") EXCEPT !.task = "HandleMessage", !.msg = <<m>>]

\* C18: for a message of any type other than Hello, Register, Query,
\* MCPBridgeAdvertise and MCPBridgeRequest, HandleMessage returns no
\* response and changes neither registry; it hands the message to the
\* generic callback, once, when one was injected, and fails exactly when
\* the callback reports a failure.  A connection task and a datagram task
\* that handle such a message end having written nothing.
C18_OtherTypes ==
    call.op = "Other" =>
        LET h == [capabilities |-> capabilities, mcpBridges |-> mcpBridges]
            c == handleTCPConnection(ConnWith(call.msg), h, call.env)
            p == handleUDPPacket(PktWith(call.msg), <<>>, TRUE, h, call.env)
        IN  /\ call.msg.Type \notin {Hello, Register, Query, MCPBridgeAdvertise,
                                      MCPBridgeRequest}
            /\ call.resp = <<>>
            /\ ~call.changed
            /\ call.passed = IF onMessage THEN <<call.msg>> ELSE <<>>
            /\ call.env.onMessage = "fail" <=> call.err # NULL
            /\ c.conn.task = "done" /\ c.conn.closed /\ c.conn.written = <<>>
            /\ c.conn.calls = 1
            /\ c.capabilities = capabilities /\ c.mcpBridges = mcpBridges
            /\ p.pkt.task = "done" /\ p.pkt.reply = <<>> /\ p.pkt.calls = 1
            /\ p.capabilities = capabilities /\ p.mcpBridges = mcpBridges

C18_Witness ==
    /\ call.op = "Other"
    /\ call.msg.Type = 0
    /\ call.env.onMessage = "ok"
    /\ DOMAIN capabilities # {}
    /\ DOMAIN mcpBridges # {}

----------------------------------------------------------------------------
(* Claims about the tasks of the server *)

\* the task of connection rec as it would be had the header of the message
\* the client sent been accepted: about to read the payload, or about to
\* call HandleMessage when there is none
Decoded(rec) ==
    LET m == ClientMessage(rec.sent)
    IN  [rec EXCEPT !.stream = SubSeq(rec.stream, 7, Len(rec.stream)),
                    !.msg = <<[m EXCEPT !.Payload = <<>>]>>,
                    !.task = IF m.PayloadSize # U32(0) THEN "ReadPayload"
                             ELSE "HandleMessage"]

\* the connection once its task has run from rec to its return
RECURSIVE Finish(_, _, _)
Finish(rec, h, env) ==
    IF rec.task = "done" THEN rec
    ELSE LET r == handleTCPConnection(rec, h, env)
         IN  Finish(r.conn, [capabilities |-> r.capabilities,
                             mcpBridges |-> r.mcpBridges], env)

\* the ways the task of a connection ends after the header: the payload
\* read or not, the handler failing or not, a response or none, the write
\* failing or not
Endings(rec) ==
    {Finish(from, [capabilities |-> capabilities, mcpBridges |-> mcpBridges], env) :
        from \in {Decoded(rec), [Decoded(rec) EXCEPT !.stream = <<>>],
                   [ConnWith(ClientMessage("handshake")) EXCEPT !.sent = "handshake"],
                   [ConnWith(ClientMessage(rec.sent)) EXCEPT !.expired = TRUE]},
        env \in Envs(TRUE)}

\* a connection handled once at most and answered once at most, closed
\* exactly when its task has ended
HandledOnce(rec) ==
    /\ rec.closed <=> rec.task = "done"
    /\ rec.calls <= 1
    /\ rec.written # <<>> =>
          /\ rec.calls = 1
          /\ rec.written = Serialize(rec.resp[1]).data

\* C19: the server closes every accepted connection when its task ends,
\* however it ends (the header or the payload not read, the header not
\* decoded, HandleMessage failing, no response, the write failing, the
\* response written) and not before; the task calls HandleMessage at most
\* once and writes at most one response, and a closed connection is not
\* touched again.
C19_ClosedOnEveryPath ==
    /\ [](\A c \in DOMAIN conns :
             /\ HandledOnce(conns[c])
             /\ (conns[c].task = "Read" /\ conns[c].sent # "") =>
                   \A end \in Endings(conns[c]) :
                       end.task = "done" /\ HandledOnce(end))
    /\ [][\A c \in DOMAIN conns :
             conns[c].task = "done" => conns'[c] = conns[c]]_vars

C19_Witness ==
    /\ \E c \in DOMAIN conns :
          conns[c].closed /\ conns[c].log = "Failed to read TCP header"
    /\ \E c \in DOMAIN conns :
          conns[c].closed /\ conns[c].log = "Failed to deserialize TCP message"

\* the failures of a task before HandleMessage has returned a response
ReadOrHandleFailures ==
    {"Failed to read TCP header", "Failed to deserialize TCP message",
     "Failed to read TCP payload", "Failed to handle TCP message",
     "Failed to deserialize UDP message", "Failed to handle UDP message"}

\* nothing was written for a connection whose task failed, and what was
\* written is the message HandleMessage returned
WroteOnlyResponse(rec) ==
    /\ rec.log \in ReadOrHandleFailures => (rec.task = "done" /\ rec.written = <<>>)
    /\ rec.written # <<>> =>
          /\ rec.log = NULL
          /\ rec.calls = 1
          /\ rec.written = Serialize(rec.resp[1]).data

\* C20: when the read or the decoding of the envelope fails, or
\* HandleMessage reports a failure, the task ends with nothing written to
\* the connection and nothing sent to the sender of the datagram, and the
\* exchange is not taken up again; whatever is written or sent is the
\* serialized message HandleMessage returned, an Error message included.
C20_NoReplyOnFailure ==
    /\ [](/\ \A c \in DOMAIN conns :
               /\ WroteOnlyResponse(conns[c])
               /\ (conns[c].task = "Read" /\ conns[c].sent # "") =>
                     \A end \in Endings(conns[c]) : WroteOnlyResponse(end)
           /\ \A p \in DOMAIN pkts :
               /\ pkts[p].log \in ReadOrHandleFailures =>
                     /\ pkts[p].task = "done"
                     /\ pkts[p].reply = <<>>
                     /\ pkts[p].resp = <<>>
               /\ pkts[p].log = "Failed to deserialize UDP message" =>
                     pkts[p].calls = 0
               /\ pkts[p].calls <= 1
               /\ pkts[p].reply # <<>> =>
                     /\ pkts[p].log = NULL
                     /\ pkts[p].calls = 1
                     /\ pkts[p].reply = Serialize(pkts[p].resp[1]).data
                     /\ \E env \in Envs(TRUE) :
                           pkts[p].resp =
                             HandleMessage([capabilities |-> capabilities,
                                            mcpBridges |-> mcpBridges],
                                           pkts[p].msg[1],
                                           [env EXCEPT !.now = pkts[p].resp[1].Timestamp]
                                          ).resp)
    /\ [][/\ \A c \in DOMAIN conns :
               conns[c].task = "done" => conns'[c] = conns[c]
           /\ \A p \in DOMAIN pkts :
               pkts[p].task = "done" => pkts'[p] = pkts[p]]_vars

C20_Witness ==
    /\ \E p \in DOMAIN pkts : pkts[p].log = "Failed to handle UDP message"
    /\ \E p \in DOMAIN pkts :
          /\ pkts[p].reply # <<>>
          /\ Deserialize(pkts[p].reply).msg.Type = Error

----------------------------------------------------------------------------
(* Claims about starting and stopping the server *)

\* no task of a connection or of a datagram is running
Quiet == AllFinished /\ udpLoop # "copy"

\* C21: once Stop is called on a started server both loops end: an error of
\* Accept or of ReadFromUDP met with the context cancelled ends the loop
\* instead of being retried; and when every task of a connection or a
\* datagram finishes in the end, Stop returns.  That is, from some moment
\* on: Stop was never called, or both loops have ended and Stop has
\* returned unless a task is still running.
C21_StopTerminates ==
    /\ <>[](stop.pc = "idle"
            \/ (/\ tcpLoop = "done" /\ udpLoop = "done"
                /\ Quiet => stop.returned))
    /\ [][(ctxDone /\ tcpLoop = "Accept" /\ Len(conns') = Len(conns))
             => tcpLoop' \in {"Accept", "done"}]_vars
    /\ [][(ctxDone /\ udpLoop = "ReadFromUDP" /\ Len(pkts') = Len(pkts))
             => udpLoop' \in {"ReadFromUDP", "done"}]_vars

C21_Witness ==
    /\ stop.returned /\ stop.err = NULL
    /\ tcpLoop = "done" /\ udpLoop = "done"
    /\ \E c \in DOMAIN conns : conns[c].log = "Failed to read TCP header"
    /\ \E p \in DOMAIN pkts : pkts[p].calls = 1

\* the response a finished task got from HandleMessage has been written
\* whole to the connection, its deadline not passed
ConnAnswered(c) ==
    (conns[c].task = "done" /\ conns[c].resp # <<>> /\ ~conns[c].expired) =>
        conns[c].written = Serialize(conns[c].resp[1]).data

\* the response a finished task got from HandleMessage has been sent to the
\* sender of the datagram
PktAnswered(p) ==
    (pkts[p].task = "done" /\ pkts[p].resp # <<>>) =>
        pkts[p].reply = Serialize(pkts[p].resp[1]).data

\* C22: a task that was spawned before Stop was called is left to finish:
\* whenever it ends, before Stop or after, the response its HandleMessage
\* call returned, if any, has been written to the connection or sent to the
\* sender of the datagram.
C22_InFlightCompletes ==
    /\ \A c \in 1..MaxClients :
          [](  (c \in DOMAIN conns /\ stop.pc = "idle")
             => [](c \in DOMAIN conns /\ ConnAnswered(c)))
    /\ \A p \in 1..MaxClients :
          [](  (p \in DOMAIN pkts /\ pkts[p].task # "copying" /\ stop.pc = "idle")
             => [](p \in DOMAIN pkts /\ PktAnswered(p)))

\* C24: when Start has returned an error, neither socket is open and
\* neither loop was started: the listener opened before the failure was
\* closed again.
C24_StartCleansUp ==
    start \notin {"none", "ok"} =>
        /\ tcpListener # "open"
        /\ udpConn # "open"
        /\ tcpLoop = "off" /\ udpLoop = "off"
        /\ wg = 0

\* the loops and the tasks that were started and have not returned
Running ==
    Cardinality({l \in {"tcp", "udp"} :
                    (IF l = "tcp" THEN tcpLoop ELSE udpLoop) \notin {"off", "done"}})
    + Cardinality({c \in DOMAIN conns : conns[c].task # "done"})
    + Cardinality({p \in DOMAIN pkts : pkts[p].task \notin {"copying", "done"}})

\* C28: once Start has succeeded the counter of the WaitGroup is the number
\* of loops and tasks that have not returned; it is never negative, and is
\* zero only when nothing is running.
C28_CounterExact ==
    /\ wg >= 0
    /\ start = "ok" => wg = Running
    /\ start # "ok" => wg = 0 /\ Running = 0

\* both loops returned after Stop was called, a connection task waiting for
\* bytes and a datagram task about to write still counted
C28_Witness ==
    /\ start = "ok"
    /\ wg = 2
    /\ tcpLoop = "done" /\ udpLoop = "done"
    /\ \E c \in DOMAIN conns : conns[c].task = "Read"
    /\ \E p \in DOMAIN pkts : pkts[p].task = "WriteToUDP"

----------------------------------------------------------------------------
(* Claims about the buffer of the receive loop *)

\* C23: what the task of a datagram decodes is the datagram that spawned
\* it: the message it holds once it has decoded is the decoding of that
\* datagram's bytes, and it fails to decode only bytes that do not decode,
\* whatever the receive loop read meanwhile.
C23_OwnBytes ==
    \A p \in DOMAIN pkts :
        /\ pkts[p].msg # <<>> =>
              /\ Deserialize(pkts[p].data).err = NULL
              /\ pkts[p].msg[1] = Deserialize(pkts[p].data).msg
        /\ pkts[p].log = "Failed to deserialize UDP message" =>
              Deserialize(pkts[p].data).err # NULL

----------------------------------------------------------------------------
(* Claims about the registries under concurrent calls *)

\* the advertisers that have stored their record
HaveStored ==
    {t \in BridgeTasks \ {Requester} :
        task[t].pc \in {"onMCPBridge", "Unlock", "done"}}

\* C25: an MCPBridgeRequest running beside advertisements of its bridge id
\* answers from one record, the one that was in the registry under that id
\* when it looked the id up holding the shared lock: it scans the data
\* types of that record and returns that record, whatever is advertised
\* between the lookup and the answer.
C25_SingleRecord ==
    /\ [][(task[Requester].pc = "lookup" /\ task'[Requester].pc # "lookup") =>
             /\ mu.readers = {Requester} /\ mu.writer = NoTask
             /\ task'[Requester].found =
                  IF TaskRequest.bridgeId \in DOMAIN mcpBridges
                  THEN <<mcpBridges[TaskRequest.bridgeId]>> ELSE <<>>]_vars
    /\ [][task[Requester].pc \in {"RUnlock", "scan", "Marshal"} =>
             task'[Requester].found = task[Requester].found]_vars
    /\ [](task[Requester].found # <<>> =>
             \E t \in HaveStored : task[Requester].found[1] = TaskBridge(t))
    /\ [](task[Requester].pc = "done" =>
             IF task[Requester].found = <<>>
             THEN IsError(task[Requester].resp[1], ErrMCPEndpointUnavailable)
             ELSE IF Supported(task[Requester].found[1], TaskRequest.dataType)
             THEN /\ task[Requester].resp[1].Type = MCPBridgeResponse
                  /\ task[Requester].resp[1].Payload =
                       MarshalBridge(task[Requester].found[1])
             ELSE IsError(task[Requester].resp[1], ErrMCPProtocolMismatch))

\* the id advertised again between the scan and the encoding
C25_Witness ==
    /\ task[Requester].pc = "Marshal"
    /\ mu.readers = {}
    /\ task[Requester].found = <<TaskBridge("adv")>>
    /\ mcpBridges[TaskRequest.bridgeId] = TaskBridge(Readvertiser)

\* C26: in every state of a Handler each key of the capability registry and
\* of the bridge registry is a non-empty string, the id of the entry stored
\* under it, and no call takes a key away: the key sets only grow.
C26_KeysAreIds ==
    /\ [](\A k \in DOMAIN capabilities : k # "" /\ capabilities[k].ID = k)
    /\ [](\A k \in DOMAIN mcpBridges : k # "" /\ mcpBridges[k].ID = k)
    /\ [][/\ DOMAIN capabilities \subseteq DOMAIN capabilities'
          /\ DOMAIN mcpBridges \subseteq DOMAIN mcpBridges']_vars

\* both registries filled, and a bridge with an empty id refused by
\* RegisterMCPBridge
C26_Witness ==
    /\ DOMAIN capabilities = {"a", "b"}
    /\ DOMAIN mcpBridges = {"a"}
    /\ call.op = "RegisterMCPBridge"
    /\ call.arg.ID = ""
    /\ call.err # NULL

\* task t holds the lock, exclusive or shared
Holds(t) == mu.writer = t \/ t \in mu.readers

\* C27: with callbacks that return, the calls on one Handler never block
\* each other for good: while a call has not returned some call can take a
\* step, a call that has returned holds no lock, whichever way it returned
\* (the empty id and the failed callback included), and every call returns
\* in the end.
C27_NoDeadlock ==
    /\ []((\E t \in Callers : task[t].pc # "done") => ENABLED CallersNext)
    /\ [](\A t \in Callers : task[t].pc \in {"idle", "Lock", "RLock", "done"}
                                  => ~Holds(t))
    /\ [](mu.writer # NoTask => mu.readers = {})
    /\ <>[](/\ \A t \in Callers : task[t].pc = "done"
            /\ mu = [writer |-> NoTask, readers |-> {}])

\* every call has returned, an advertisement with an empty id and one whose
\* callback failed among them
C27_Witness ==
    /\ \A t \in Callers : task[t].pc = "done"
    /\ task["adv0"].ret = "bridge ID required"
    /\ task["adv"].report = "fail"
    /\ task["adv"].ret # NULL
    /\ task[Requester].resp[1].Type = MCPBridgeResponse
    /\ mu = [writer |-> NoTask, readers |-> {}]

====
